---- MODULE Spec2Model ----
(***************************************************************************)
(* A model of pycitysim's Map (src/pycitysim/map/map.py): the ID lookups,  *)
(* the radius queries over the four STRtree indexes, the resolution of a   *)
(* route position to an arc length on a lane, the geometry of a route, the *)
(* GeoJSON exports, and the loading of a map from its records through the  *)
(* snapshot cache.                                                         *)
(*                                                                         *)
(* Geometry lives on an integer grid.  A Point is one grid point, a        *)
(* Polygon is an axis-aligned rectangle given by its four corners, and a   *)
(* LineString is a polyline whose segments are axis-aligned, so that every *)
(* distance the code computes has an exact integer square.  Distances are  *)
(* carried as their squares (DistSq): x <= r iff x^2 <= r^2 for x, r >= 0, *)
(* and sorting by the square is sorting by the distance.                   *)
(***************************************************************************)
EXTENDS Integers, Sequences, FiniteSets, TLC

\* Coordinates of query centers range over 0..GridMax.
GridMax == 3
\* Radii range over 0..MaxRadius.
MaxRadius == 2
\* Result caps range over None and Some(0..MaxLimit).
MaxLimit == 2
\* The caller holds at most MaxHeld values returned by get_*.
MaxHeld == 2
\* The caller mutates the values it holds at most MaxMut times.
MaxMut == 1
\* Arc lengths s range over 0..MaxS.
MaxS == 2
\* A road of a loaded map has at most MaxRoadLanes lanes.
MaxRoadLanes == 3
\* Loads that run at the same time on one cache directory
MaxLoaders == 2
\* LRU(cache_size): the items the relation cache keeps.
MaxCache == 2

VARIABLES
    \* ---- the spatial indexes (Map._build_geo_index) ----
    aoi_list,            \* self._aoi_list
    poi_list,            \* self._poi_list
    lane_values,         \* list(self.lanes.values())
    driving_lane_list,   \* self._driving_lane_list
    walking_lane_list,   \* self._walking_lane_list
    tree_rev,            \* the (fixed) order in which an STRtree reports hits
    qcall,               \* the last radius query and what it returned
    \* ---- the stored entities and the ID lookups ----
    heap,                \* the Python objects: address -> dict
    aois,                \* self.aois: id -> address of the entity dict
    pois,                \* self.pois
    lanes,               \* self.lanes
    roads,               \* self.roads
    juncs,               \* self.juncs
    shape,               \* which optional fields the loaded records carry
    held,                \* the values get_* returned that the caller holds
    muts,                \* how many times the caller has mutated them
    lcall,               \* the get_* call that has just returned
    \* ---- route positions ----
    route_aois,          \* self.aois as the route code reads it
    route_lanes,         \* self.lanes as the route code reads it
    route_roads,         \* self.roads as the route code reads it
    rcall,               \* the route call that has just returned
    \* ---- the header, the projector and the remaining calls ----
    header,              \* self.header: address of the header dict
    projector,           \* self.projector
    fcall,               \* the export, conversion or get_header call that
                         \* has just returned
    \* ---- loading: the data source, the cache directory, Map(...) ----
    mongo,               \* per (uri, db, coll): the records find({}) yields,
                         \* or None while the server cannot be reached
    files,               \* the files under the cache directories, by path
    dirs,                \* the cache directories that exist
    ocall,               \* the Map(...) call that has just returned
    loading,             \* per concurrent load: where it stands in
                         \* _download_map_with_cache, and its locals
    \* ---- the knowledge-graph client (urbankg/kg.py) ----
    relation_coll,       \* the documents of the relation collection
    relation_cache,      \* self._relation_cache, most recently used first
    kcall                \* the knowledge-graph call that has just returned

rvars == <<route_aois, route_lanes, route_roads, rcall>>

fvars == <<header, projector, fcall>>

ovars == <<mongo, files, dirs, ocall, loading>>

kvars == <<relation_coll, relation_cache, kcall>>

lvars == <<heap, aois, pois, lanes, roads, juncs, shape, held, muts, lcall>>

qvars == <<aoi_list, poi_list, lane_values, driving_lane_list,
           walking_lane_list, tree_rev, qcall>>

vars == <<qvars, lvars, rvars, fvars, ovars, kvars>>

\* Optional values: None is the empty tuple, a present value v is <<v>>.
None == <<>>
Some(v) == <<v>>

Min(a, b) == IF a <= b THEN a ELSE b
Max(a, b) == IF a >= b THEN a ELSE b

(***************************************************************************)
(* shapely geometry                                                        *)
(***************************************************************************)
Point(xy) == [type |-> "Point", coords |-> <<xy>>]
Polygon(positions) == [type |-> "Polygon", coords |-> positions]
LineString(nodes) == [type |-> "LineString", coords |-> nodes]

\* The envelope <<minx, miny, maxx, maxy>> of a geometry.
Bounds(g) ==
    LET xs == {g.coords[i][1] : i \in DOMAIN g.coords}
        ys == {g.coords[i][2] : i \in DOMAIN g.coords}
    IN  << CHOOSE v \in xs : \A w \in xs : v <= w,
           CHOOSE v \in ys : \A w \in ys : v <= w,
           CHOOSE v \in xs : \A w \in xs : v >= w,
           CHOOSE v \in ys : \A w \in ys : v >= w >>

\* Squared distance from point p to the axis-aligned box b (0 inside it).
BoxDistSq(p, b) ==
    LET dx == Max(Max(b[1] - p[1], p[1] - b[3]), 0)
        dy == Max(Max(b[2] - p[2], p[2] - b[4]), 0)
    IN  dx * dx + dy * dy

\* The i-th segment of a LineString, as the box it spans.
Segment(g, i) == Bounds(LineString(<<g.coords[i], g.coords[i + 1]>>))

\* Point.distance(geometry), squared: the pointwise planar distance.
DistSq(p, g) ==
    CASE g.type = "Point" -> BoxDistSq(p, Bounds(g))
      [] g.type = "Polygon" -> BoxDistSq(p, Bounds(g))
      [] g.type = "LineString" ->
            LET ds == {BoxDistSq(p, Segment(g, i)) : i \in 1..(Len(g.coords) - 1)}
            IN  CHOOSE d \in ds : \A e \in ds : d <= e

\* Length of the i-th (axis-aligned) segment of a LineString.
SegLen(g, i) ==
    LET b == Segment(g, i) IN (b[3] - b[1]) + (b[4] - b[2])

RECURSIVE LenBefore(_, _)
\* Arc length of a LineString up to the start of its i-th segment.
LenBefore(g, i) == IF i <= 1 THEN 0 ELSE LenBefore(g, i - 1) + SegLen(g, i - 1)

\* LineString.project(point): arc length of the nearest point of the line
\* (on the first segment that attains the distance).
Project(g, p) ==
    LET d == DistSq(p, g)
        i == CHOOSE k \in 1..(Len(g.coords) - 1) :
                /\ BoxDistSq(p, Segment(g, k)) = d
                /\ \A j \in 1..(k - 1) : BoxDistSq(p, Segment(g, j)) # d
        a == g.coords[i]
        b == Segment(g, i)
        \* the nearest point of segment i: p clamped into the segment's box
        nx == Min(Max(p[1], b[1]), b[3])
        ny == Min(Max(p[2], b[2]), b[4])
        off == (IF nx >= a[1] THEN nx - a[1] ELSE a[1] - nx)
             + (IF ny >= a[2] THEN ny - a[2] ELSE a[2] - ny)
    IN  LenBefore(g, i) + off

\* Point.buffer(radius): a disc; only its envelope is read by the index.
\* A buffer of radius <= 0 around a point is the empty polygon.
Buffer(center, radius) ==
    IF radius <= 0
    THEN [empty |-> TRUE, env |-> <<0, 0, 0, 0>>]
    ELSE [empty |-> FALSE,
          env |-> <<center[1] - radius, center[2] - radius,
                    center[1] + radius, center[2] + radius>>]

EnvIntersects(a, b) ==
    /\ a[1] <= b[3] /\ b[1] <= a[3]
    /\ a[2] <= b[4] /\ b[2] <= a[4]

RECURSIVE SelectIdx(_, _, _)
\* The indices i of order (in that order) for which keep[i] holds.
SelectIdx(order, keep, k) ==
    IF k > Len(order) THEN <<>>
    ELSE (IF keep[order[k]] THEN <<order[k]>> ELSE <<>>)
         \o SelectIdx(order, keep, k + 1)

\* The order in which a tree over n geometries visits its leaves.
TreeOrder(n) == [i \in 1..n |-> IF tree_rev THEN n + 1 - i ELSE i]

\* STRtree.query(geometry) with no predicate: the indices of the tree's
\* geometries whose envelope intersects the envelope of the query geometry;
\* an empty query geometry matches nothing.
STRtreeQuery(list, q) ==
    SelectIdx(TreeOrder(Len(list)),
              [i \in 1..Len(list) |->
                  /\ ~q.empty
                  /\ EnvIntersects(Bounds(list[i].shapely_xy), q.env)],
              1)

(***************************************************************************)
(* sorted(xs, key=lambda x: x[k]) and xs[:limit]                           *)
(***************************************************************************)
RECURSIVE InsertByKey(_, _, _)
\* Insert x into the sorted sequence s after every element with key <= x[k].
InsertByKey(s, x, k) ==
    IF s = <<>> THEN <<x>>
    ELSE IF s[1][k] <= x[k] THEN <<s[1]>> \o InsertByKey(Tail(s), x, k)
    ELSE <<x>> \o s

RECURSIVE SortedFrom(_, _, _)
SortedFrom(s, k, n) ==
    IF n = 0 THEN <<>> ELSE InsertByKey(SortedFrom(s, k, n - 1), s[n], k)

\* Mutant of Sorted: the list is left in the order the index reported.
SortedNotAtAll(s, k) == s

\* Python's sorted(): ascending in component k, stable.
Sorted(s, k) == SortedFrom(s, k, Len(s))

\* s[:limit] for limit >= 0; limit None keeps everything.
Truncate(s, limit) ==
    IF limit = None THEN s ELSE SubSeq(s, 1, Min(limit[1], Len(s)))

(***************************************************************************)
(* The stored entities of the radius queries.  Strings that the code       *)
(* inspects character by character (POI category codes) are sequences of   *)
(* digits.                                                                 *)
(***************************************************************************)
Poi(id, category, xy) ==
    [id |-> id, category |-> category, position |-> xy,
     shapely_xy |-> Point(xy)]

\* An AOI without "area" is a Point at positions[0], else a Polygon
\* (Map._parse_map).  urban_land_use is Optional: None omits the key.
Aoi(id, positions, has_area, land_use) ==
    LET geo == IF has_area THEN Polygon(positions) ELSE Point(positions[1])
        base == [id |-> id, positions |-> positions, has_area |-> has_area,
                 shapely_xy |-> geo]
    IN  IF land_use = None THEN base
        ELSE [k \in (DOMAIN base) \cup {"urban_land_use"} |->
                 IF k = "urban_land_use" THEN land_use[1] ELSE base[k]]

Lane(id, type, nodes) ==
    [id |-> id, type |-> type, center_line |-> nodes,
     shapely_xy |-> LineString(nodes)]

\* The four corners of the rectangle from a to b.
Rect(a, b) == <<a, <<b[1], a[2]>>, b, <<a[1], b[2]>>>>

\* Map._build_geo_index: the entity list behind each of the four trees.
BuildGeoIndex(aois_values, pois_values, lanes_values) ==
    [aoi_list |-> aois_values,
     poi_list |-> pois_values,
     driving_lane_list |-> SelectSeq(lanes_values, LAMBDA l : l.type = 1),
     walking_lane_list |-> SelectSeq(lanes_values, LAMBDA l : l.type = 2)]

(***************************************************************************)
(* The radius queries.  A call's outcome is [exc, val]: exc is "none" and  *)
(* val the returned list, or exc names the exception raised.               *)
(***************************************************************************)
Returns(v) == [exc |-> "none", val |-> v]
Raises(e) == [exc |-> e, val |-> <<>>]

\* str.startswith
StartsWith(s, prefix) ==
    /\ Len(prefix) <= Len(s)
    /\ SubSeq(s, 1, Len(prefix)) = prefix

\* x in list
InList(x, list) == \E i \in DOMAIN list : list[i] = x

\* Mutant of query_pois: the cap is applied before sorting.
query_pois_cap_first(center, radius, category_prefix, limit) ==
    LET indices == STRtreeQuery(poi_list, Buffer(center, radius))
        hits == SelectSeq(indices,
                    LAMBDA i : StartsWith(poi_list[i].category, category_prefix))
        found == [k \in 1..Len(hits) |->
                    <<poi_list[hits[k]],
                      DistSq(center, poi_list[hits[k]].shapely_xy)>>]
    IN  Returns(Sorted(Truncate(found, limit), 2))

query_pois(center, radius, category_prefix, limit) ==
    LET indices == STRtreeQuery(poi_list, Buffer(center, radius))
        hits == SelectSeq(indices,
                    LAMBDA i : StartsWith(poi_list[i].category, category_prefix))
        found == [k \in 1..Len(hits) |->
                    <<poi_list[hits[k]],
                      DistSq(center, poi_list[hits[k]].shapely_xy)>>]
    IN  Returns(Truncate(Sorted(found, 2), limit))

query_aois(center, radius, urban_land_uses, limit) ==
    LET indices == STRtreeQuery(aoi_list, Buffer(center, radius))
        filtering == urban_land_uses # None
        \* aoi["urban_land_use"] on a record without the key
        key_error == /\ filtering
                     /\ \E k \in DOMAIN indices :
                           "urban_land_use" \notin DOMAIN aoi_list[indices[k]]
        hits == SelectSeq(indices,
                    LAMBDA i : \/ ~filtering
                               \/ InList(aoi_list[i].urban_land_use,
                                         urban_land_uses[1]))
        found == [k \in 1..Len(hits) |->
                    <<aoi_list[hits[k]],
                      DistSq(center, aoi_list[hits[k]].shapely_xy)>>]
    IN  IF key_error THEN Raises("KeyError")
        ELSE Returns(Truncate(Sorted(found, 2), limit))

\* The part of query_lane after the index has been chosen.
LaneHits(list, xy, radius) ==
    LET indices == STRtreeQuery(list, Buffer(xy, radius))
        near == SelectSeq(indices,
                    LAMBDA i : ~(DistSq(xy, list[i].shapely_xy) > radius * radius))
        result == [k \in 1..Len(near) |->
                    <<list[near[k]],
                      Project(list[near[k]].shapely_xy, xy),
                      DistSq(xy, list[near[k]].shapely_xy)>>]
    IN  Sorted(result, 3)

\* Mutant of query_lane: an unknown lane_type falls back to driving lanes.
query_lane_fallback(xy, radius, lane_type) ==
    IF lane_type = 2 THEN Returns(LaneHits(walking_lane_list, xy, radius))
    ELSE Returns(LaneHits(driving_lane_list, xy, radius))

query_lane(xy, radius, lane_type) ==
    IF lane_type = 1 THEN Returns(LaneHits(driving_lane_list, xy, radius))
    ELSE IF lane_type = 2 THEN Returns(LaneHits(walking_lane_list, xy, radius))
    ELSE Raises("ValueError")

(***************************************************************************)
(* The stored entity dicts as Python objects.  An object is a dict from    *)
(* keys to values; a value is an atom (a number) or a reference to another *)
(* object (a nested dict or list).  heap maps the addresses in use to      *)
(* their objects, so that two names for one object share its mutations.    *)
(***************************************************************************)
Atom(n) == [ref |-> FALSE, v |-> n]
Ref(a) == [ref |-> TRUE, v |-> a]

\* The dict d without the keys in ks.
Without(d, ks) == [k \in (DOMAIN d) \ ks |-> d[k]]

MaxOf(S) == CHOOSE v \in S : \A w \in S : v >= w

RECURSIVE ReachFrom(_, _, _)
ReachFrom(h, frontier, seen) ==
    IF frontier \subseteq seen THEN seen
    ELSE LET new == frontier \ seen
             next == {h[x][k].v : <<x, k>> \in
                        {<<y, j>> \in new \X UNION {DOMAIN h[z] : z \in new} :
                            j \in DOMAIN h[y] /\ h[y][j].ref}}
         IN  ReachFrom(h, next, seen \cup new)

\* The objects reachable from the object at address a.
Reach(h, a) == ReachFrom(h, {a}, {})

\* The fields get_* strips unless include_unused is set.
AoiExternalUnused ==
    {"driving_distances", "driving_lane_project_point",
     "walking_distances", "walking_lane_project_point"}
LaneUnused == {"left_border_line", "right_border_line", "overlaps"}
JunctionUnused == {"external", "driving_lane_groups"}

(***************************************************************************)
(* The loaded entities the ID lookups are checked on: one entity of each   *)
(* kind.  shape says which optional fields the records carry: "full" all   *)
(* of them, "partial" some, "bare" none.                                   *)
(***************************************************************************)
Shapes == {"full", "partial", "bare"}

\* The ID of the stored entity of each kind.
EntityId ==
    [aoi |-> 500, lane |-> 1, junction |-> 300, poi |-> 700, road |-> 200]
AoiId == EntityId.aoi
LaneId == EntityId.lane
JunctionId == EntityId.junction
PoiId == EntityId.poi
RoadId == EntityId.road

\* The keys a record of the given shape does not carry.
AoiMissing(sh) ==
    CASE sh = "full" -> {}
      [] sh = "partial" -> {}
      [] sh = "bare" -> {"type", "external"}
AoiExternalMissing(sh) ==
    CASE sh = "full" -> {}
      [] sh = "partial" -> {"driving_lane_project_point", "walking_distances",
                            "walking_lane_project_point"}
      [] sh = "bare" -> {}
LaneMissing(sh) ==
    CASE sh = "full" -> {}
      [] sh = "partial" -> {"left_border_line", "right_border_line"}
      [] sh = "bare" -> LaneUnused
JunctionMissing(sh) ==
    CASE sh = "full" -> {}
      [] sh = "partial" -> {"external"}
      [] sh = "bare" -> JunctionUnused

\* Every object a loaded map of the given shape may hold, by address.
LoadedObjects(sh) ==
       1 :> Without("id" :> Atom(AoiId) @@ "type" :> Atom(1)
                    @@ "external" :> Ref(2) @@ "poi_ids" :> Ref(3)
                    @@ "shapely_lnglat" :> Atom(51),
                    AoiMissing(sh))
    @@ 2 :> Without("driving_distances" :> Atom(21)
                    @@ "driving_lane_project_point" :> Atom(22)
                    @@ "walking_distances" :> Atom(23)
                    @@ "walking_lane_project_point" :> Atom(24)
                    @@ "population" :> Atom(25),
                    AoiExternalMissing(sh))
    @@ 3 :> ("0" :> Atom(PoiId))
    @@ 4 :> Without("id" :> Atom(LaneId) @@ "type" :> Atom(1)
                    @@ "center_line" :> Ref(5)
                    @@ "left_border_line" :> Ref(6)
                    @@ "right_border_line" :> Ref(7)
                    @@ "overlaps" :> Ref(8)
                    @@ "turn" :> Atom(1) @@ "parent_id" :> Atom(RoadId)
                    @@ "max_speed" :> Atom(16)
                    @@ "shapely_lnglat" :> Atom(52),
                    LaneMissing(sh))
    @@ 5 :> ("0" :> Atom(41) @@ "1" :> Atom(42))
    @@ 6 :> ("0" :> Atom(43) @@ "1" :> Atom(44))
    @@ 7 :> ("0" :> Atom(45) @@ "1" :> Atom(46))
    @@ 8 :> ("0" :> Atom(47))
    @@ 9 :> Without("id" :> Atom(JunctionId) @@ "lane_ids" :> Ref(10)
                    @@ "external" :> Ref(11)
                    @@ "driving_lane_groups" :> Ref(12),
                    JunctionMissing(sh))
    @@ 10 :> ("0" :> Atom(LaneId))
    @@ 11 :> ("population" :> Atom(31))
    @@ 12 :> ("0" :> Atom(32))
    @@ 13 :> ("id" :> Atom(PoiId) @@ "category" :> Atom(131300)
              @@ "position" :> Ref(14) @@ "name" :> Atom(61)
              @@ "shapely_lnglat" :> Atom(53))
    @@ 14 :> ("x" :> Atom(1) @@ "y" :> Atom(1))
    @@ 15 :> ("id" :> Atom(RoadId) @@ "lane_ids" :> Ref(16)
              @@ "shapely_lnglat" :> Atom(52))
    @@ 16 :> ("0" :> Atom(LaneId))
    @@ 17 :> ("name" :> Atom(71) @@ "projection" :> Atom(72))

LoadedAois == AoiId :> 1
LoadedLanes == LaneId :> 4
LoadedJuncs == JunctionId :> 9
LoadedPois == PoiId :> 13
LoadedRoads == RoadId :> 15
LoadedHeader == 17

\* The heap of a freshly loaded map: the entity dicts and what they hold.
LoadedHeap(sh) ==
    LET all == LoadedObjects(sh)
        live == UNION {Reach(all, a) : a \in {1, 4, 9, 13, 15, LoadedHeader}}
    IN  [a \in live |-> all[a]]

\* The IDs an ID lookup of the given kind is called with: the stored one and
\* one this kind does not store.
LookupIds(kind) ==
    CASE kind = "get_aoi" -> {AoiId, PoiId}
      [] kind = "get_poi" -> {PoiId, AoiId}
      [] kind = "get_lane" -> {LaneId, RoadId}
      [] kind = "get_road" -> {RoadId, LaneId}
      [] kind = "get_junction" -> {JunctionId, LaneId}

(***************************************************************************)
(* copy.deepcopy and the ID lookups                                        *)
(***************************************************************************)
\* Addresses are handed out in strides: the n-th copy of the object at
\* address x is placed at x + n * Stride, for the least n that leaves every
\* object of the copy on an unused address.
Stride == MaxOf(DOMAIN LoadedObjects("full"))

\* Mutant of deepcopy: copy.copy, which copies the outer dict only.
copy_shallow(h, a) ==
    LET free(n) == a + n * Stride \notin DOMAIN h
        n == CHOOSE i \in 1..(Cardinality(DOMAIN h) + 1) :
                free(i) /\ \A j \in 1..(i - 1) : ~free(j)
    IN  [heap |-> [m \in (DOMAIN h) \cup {a + n * Stride} |->
                      IF m \in DOMAIN h THEN h[m] ELSE h[a]],
         root |-> a + n * Stride]

\* copy.deepcopy(x) with x at address a: every object reachable from a is
\* copied once to a fresh address, references inside the copies point to
\* the copies.  Yields the grown heap and the address of the copy of a.
deepcopy(h, a) ==
    LET old == Reach(h, a)
        free(n) == \A x \in old : x + n * Stride \notin DOMAIN h
        n == CHOOSE i \in 1..(Cardinality(DOMAIN h) + 1) :
                free(i) /\ \A j \in 1..(i - 1) : ~free(j)
        new == [x \in old |-> x + n * Stride]
        back == [m \in {new[x] : x \in old} |-> CHOOSE x \in old : new[x] = m]
        copy(x) == [k \in DOMAIN h[x] |->
                       IF h[x][k].ref THEN Ref(new[h[x][k].v]) ELSE h[x][k]]
    IN  [heap |-> [m \in (DOMAIN h) \cup (DOMAIN back) |->
                      IF m \in DOMAIN h THEN h[m] ELSE copy(back[m])],
         root |-> new[a]]

\* dict.get(id): None when id is not a key.
DictGet(d, id) == IF id \in DOMAIN d THEN Some(d[id]) ELSE None

\* del obj[key] for each key of ks that obj has, obj at address a.
DelIfIn(h, a, ks) == [h EXCEPT ![a] = Without(h[a], ks)]

\* What a get_* call yields: the heap after it and [exc, val], val being
\* None or Some(address of the returned dict).
Outcome(h, res) == [heap |-> h, res |-> res]

\* Mutant of get_aoi: the stored dict is worked on, no copy is taken.
get_aoi_in_place(h, id, include_unused) ==
    LET doc == DictGet(aois, id)
        top == h[doc[1]]
    IN  IF doc = None THEN Outcome(h, Returns(None))
        ELSE IF include_unused THEN Outcome(h, Returns(doc))
        ELSE IF "type" \notin DOMAIN top THEN Outcome(h, Raises("KeyError"))
        ELSE LET h1 == DelIfIn(h, doc[1], {"type"})
                 h2 == IF "external" \in DOMAIN top
                       THEN DelIfIn(h1, top["external"].v, AoiExternalUnused)
                       ELSE h1
             IN  Outcome(h2, Returns(doc))

get_aoi(h, id, include_unused) ==
    LET doc == DictGet(aois, id)
        c == deepcopy(h, doc[1])
        top == c.heap[c.root]
    IN  IF doc = None THEN Outcome(h, Returns(None))
        ELSE IF include_unused THEN Outcome(c.heap, Returns(Some(c.root)))
        \* del doc["type"]
        ELSE IF "type" \notin DOMAIN top THEN Outcome(h, Raises("KeyError"))
        ELSE LET h1 == DelIfIn(c.heap, c.root, {"type"})
                 h2 == IF "external" \in DOMAIN top
                       THEN DelIfIn(h1, top["external"].v, AoiExternalUnused)
                       ELSE h1
             IN  Outcome(h2, Returns(Some(c.root)))

get_poi(h, id, include_unused) ==
    LET doc == DictGet(pois, id)
        c == deepcopy(h, doc[1])
    IN  IF doc = None THEN Outcome(h, Returns(None))
        ELSE Outcome(c.heap, Returns(Some(c.root)))

get_lane(h, id, include_unused) ==
    LET doc == DictGet(lanes, id)
        c == deepcopy(h, doc[1])
    IN  IF doc = None THEN Outcome(h, Returns(None))
        ELSE IF include_unused THEN Outcome(c.heap, Returns(Some(c.root)))
        ELSE Outcome(DelIfIn(c.heap, c.root, LaneUnused), Returns(Some(c.root)))

get_road(h, id, include_unused) ==
    LET doc == DictGet(roads, id)
        c == deepcopy(h, doc[1])
    IN  IF doc = None THEN Outcome(h, Returns(None))
        ELSE Outcome(c.heap, Returns(Some(c.root)))

\* Mutant of get_junction: self.juncs[id] in place of self.juncs.get(id).
get_junction_subscript(h, id, include_unused) ==
    LET c == deepcopy(h, juncs[id])
    IN  IF id \notin DOMAIN juncs THEN Outcome(h, Raises("KeyError"))
        ELSE IF include_unused THEN Outcome(c.heap, Returns(Some(c.root)))
        ELSE Outcome(DelIfIn(c.heap, c.root, JunctionUnused),
                     Returns(Some(c.root)))

get_junction(h, id, include_unused) ==
    LET doc == DictGet(juncs, id)
        c == deepcopy(h, doc[1])
    IN  IF doc = None THEN Outcome(h, Returns(None))
        ELSE IF include_unused THEN Outcome(c.heap, Returns(Some(c.root)))
        ELSE Outcome(DelIfIn(c.heap, c.root, JunctionUnused),
                     Returns(Some(c.root)))

(***************************************************************************)
(* Map._get_lane_s.  A geo_pb2.Position carries an optional aoi_position   *)
(* (an aoi_id) and an optional lane_position (a lane_id and an s).         *)
(***************************************************************************)
Position(aoi_position, lane_position) ==
    [aoi_position |-> aoi_position, lane_position |-> lane_position]
LanePosition(lane_id, s) == [lane_id |-> lane_id, s |-> s]

\* Mutant of get_lane_s: the first access point found is taken, without
\* asking that it be the only one.
get_lane_s_first(position, lane_id) ==
    IF position.aoi_position # None
    THEN LET aoi_id == position.aoi_position[1]
             ps == route_aois[aoi_id].walking_positions
                   \o route_aois[aoi_id].driving_positions
             ss == SelectSeq(ps, LAMBDA q : q.lane_id = lane_id)
         IN  IF aoi_id \notin DOMAIN route_aois THEN Raises("KeyError")
             ELSE IF Len(ss) = 0 THEN Raises("AssertionError")
             ELSE Returns(ss[1].s)
    ELSE IF position.lane_position # None
    THEN Returns(position.lane_position[1].s)
    ELSE Raises("AssertionError")

\* Map._get_lane_s(position, lane_id): the s of position on lane lane_id.
get_lane_s(position, lane_id) ==
    IF position.aoi_position # None
    THEN LET aoi_id == position.aoi_position[1]
             ps == route_aois[aoi_id].walking_positions
                   \o route_aois[aoi_id].driving_positions
             ss == SelectSeq(ps, LAMBDA q : q.lane_id = lane_id)
         IN  \* self.aois[aoi_id]
             IF aoi_id \notin DOMAIN route_aois THEN Raises("KeyError")
             \* assert len(ss) == 1
             ELSE IF Len(ss) # 1 THEN Raises("AssertionError")
             ELSE Returns(ss[1].s)
    ELSE IF position.lane_position # None
    THEN Returns(position.lane_position[1].s)
    \* assert False
    ELSE Raises("AssertionError")

(***************************************************************************)
(* pyproj: the projector built from header["projection"] is a translation  *)
(* of the grid, p(lng, lat) giving xy and p(x, y, inverse=True) lng, lat.  *)
(***************************************************************************)
\* The origin the projection string of the model's maps names.
ProjectionOrigin == <<116, 39>>

\* pyproj.Proj(projection)
PyProj(projection) == [origin |-> projection]

\* p(a, b) and p(a, b, inverse=True) for a projector p
Proj(p, xy, inverse) ==
    IF inverse THEN <<xy[1] + p.origin[1], xy[2] + p.origin[2]>>
    ELSE <<xy[1] - p.origin[1], xy[2] - p.origin[2]>>

(***************************************************************************)
(* shapely operations on the geometry of a route.  Arc lengths are         *)
(* non-negative integers, and every segment has positive length.           *)
(***************************************************************************)
\* LineString.length
Length(g) == LenBefore(g, Len(g.coords))

Sign(d) == IF d > 0 THEN 1 ELSE IF d < 0 THEN 0 - 1 ELSE 0

\* LineString.interpolate(dist): the point at arc length dist, clamped to
\* the ends of the line.
Interpolate(g, dist) ==
    LET d == Min(Max(dist, 0), Length(g))
    IN  \* the point is the same on every segment whose span holds d
        CHOOSE p \in
            {<<g.coords[k][1]
                 + (d - LenBefore(g, k))
                   * Sign(g.coords[k + 1][1] - g.coords[k][1]),
               g.coords[k][2]
                 + (d - LenBefore(g, k))
                   * Sign(g.coords[k + 1][2] - g.coords[k][2])>> :
               k \in {j \in 1..(Len(g.coords) - 1) :
                         LenBefore(g, j) <= d /\ d <= LenBefore(g, j + 1)}} :
            TRUE

\* list(reversed(xs))
Reversed(xs) == [i \in 1..Len(xs) |-> xs[Len(xs) + 1 - i]]

\* LineString.reverse()
Reverse(g) == LineString(Reversed(g.coords))

\* shapely.ops.substring(geom, start_dist, end_dist): a Point when the two
\* distances meet (or both lie beyond the end); else the point at the lower
\* distance, the vertices strictly between the two distances, the point at
\* the higher distance -- the whole reversed when start_dist > end_dist.
substring(g, start_dist, end_dist) ==
    LET lo == Min(start_dist, end_dist)
        hi == Max(start_dist, end_dist)
    IN  CHOOSE out \in
            {IF start_dist = end_dist \/ lo >= Length(g) THEN Point(at[lo])
             ELSE LineString(
                    IF start_dist > end_dist
                    THEN Reversed(<<at[lo]>>
                                  \o [k \in 1..Len(inner) |-> g.coords[inner[k]]]
                                  \o <<at[hi]>>)
                    ELSE <<at[lo]>>
                         \o [k \in 1..Len(inner) |-> g.coords[inner[k]]]
                         \o <<at[hi]>>) :
               at \in {[d \in {lo, hi} |-> Interpolate(g, d)]},
               inner \in {SelectSeq([i \in 1..(Len(g.coords) - 1) |-> i],
                                    LAMBDA i : lo < LenBefore(g, i)
                                               /\ LenBefore(g, i) < hi)}} :
            TRUE

\* geometry.centroid.coords[0] of a Point or of a rectangle (the rectangles
\* of the model have even sides, so the centre is a grid point).
Centroid(g) ==
    LET b == Bounds(g) IN <<(b[1] + b[3]) \div 2, (b[2] + b[4]) \div 2>>

(***************************************************************************)
(* Map._parse_map, the roads: the derived attributes of one road.          *)
(***************************************************************************)
\* Mutant of parse_road: the centre lane is taken among the driving lanes.
parse_road_among_driving(lanes_data, road) ==
    LET lane_ids == road.lane_ids
        driving_lane_ids ==
            SelectSeq(lane_ids, LAMBDA lid : lanes_data[lid].type = 1)
        center == Len(driving_lane_ids) \div 2
    IN  IF \E i \in DOMAIN lane_ids : lane_ids[i] \notin DOMAIN lanes_data
        THEN Raises("KeyError")
        ELSE IF center >= Len(driving_lane_ids) THEN Raises("IndexError")
        ELSE LET center_lane == lanes_data[driving_lane_ids[center + 1]]
             IN  Returns([id |-> road.id, lane_ids |-> lane_ids,
                          driving_lane_ids |-> driving_lane_ids,
                          length |-> center_lane.length,
                          max_speed |-> center_lane.max_speed,
                          shapely_xy |-> center_lane.shapely_xy,
                          shapely_lnglat |-> center_lane.shapely_lnglat])

\* for road in roads.values(): ... (one turn of the loop)
parse_road(lanes_data, road) ==
    LET lane_ids == road.lane_ids
        driving_lane_ids ==
            SelectSeq(lane_ids, LAMBDA lid : lanes_data[lid].type = 1)
        \* 0-based, as in the code
        center == Len(driving_lane_ids) \div 2
    IN  \* lanes[lid]["type"]
        IF \E i \in DOMAIN lane_ids : lane_ids[i] \notin DOMAIN lanes_data
        THEN Raises("KeyError")
        \* lane_ids[len(driving_lane_ids) // 2]
        ELSE IF center >= Len(lane_ids) THEN Raises("IndexError")
        ELSE LET center_lane == lanes_data[lane_ids[center + 1]]
             IN  Returns([id |-> road.id, lane_ids |-> lane_ids,
                          driving_lane_ids |-> driving_lane_ids,
                          length |-> center_lane.length,
                          max_speed |-> center_lane.max_speed,
                          shapely_xy |-> center_lane.shapely_xy,
                          shapely_lnglat |-> center_lane.shapely_lnglat])

(***************************************************************************)
(* Map._parse_map.  A record is [class, data]; a dict keyed by id is the    *)
(* sequence of its values in insertion order, as Python keeps it.          *)
(***************************************************************************)
Record(class, data) == [class |-> class, data |-> data]

DictIds(d) == {d[i].id : i \in DOMAIN d}

\* d[id]
DictAt(d, id) == d[CHOOSE i \in DOMAIN d : d[i].id = id]

\* Mutant of DictPut: a known id keeps its first value.
DictPut_setdefault(d, data) ==
    IF data.id \in DictIds(d) THEN d ELSE Append(d, data)

\* d[data["id"]] = data: a known id keeps its place and takes the new value.
DictPut(d, data) ==
    IF data.id \in DictIds(d)
    THEN [i \in DOMAIN d |-> IF d[i].id = data.id THEN data ELSE d[i]]
    ELSE Append(d, data)

\* The dict as a function of the id.
ById(d) == [id \in DictIds(d) |-> DictAt(d, id)]

RECURSIVE Collect(_, _, _)
\* The loop over the records: the dict of class t after the first k records.
Collect(m, t, k) ==
    IF k = 0 THEN <<>>
    ELSE IF m[k].class = t THEN DictPut(Collect(m, t, k - 1), m[k].data)
    ELSE Collect(m, t, k - 1)

\* header after the loop: the data of the last header record, if any.
HeaderOf(m) ==
    IF \A k \in DOMAIN m : m[k].class # "header" THEN None
    ELSE Some(m[CHOOSE k \in DOMAIN m :
                   /\ m[k].class = "header"
                   /\ \A j \in DOMAIN m : m[j].class = "header" => j <= k].data)

\* Whether pyproj accepts the projection string: the strings of the model
\* are the origin they name, the malformed one is empty.
WellFormed(projection) == Len(projection) = 2

\* The outcome of a loop whose turns yield outs, in order: the exception of
\* the first turn that raises, else the values of all turns.
InOrder(outs) ==
    IF \E i \in DOMAIN outs : outs[i].exc # "none"
    THEN outs[CHOOSE i \in DOMAIN outs :
                 /\ outs[i].exc # "none"
                 /\ \A j \in 1..(i - 1) : outs[j].exc = "none"]
    ELSE Returns([i \in DOMAIN outs |-> outs[i].val])

\* for lane in lanes.values(): ... (one turn)
parse_lane(p, lane) ==
    [shapely_xy |-> LineString(lane.center_line.nodes),
     shapely_lnglat |->
        LineString([i \in DOMAIN lane.center_line.nodes |->
                       Proj(p, lane.center_line.nodes[i], TRUE)])] @@ lane

\* for aoi in aois.values(): ... (one turn)
parse_aoi(p, aoi) ==
    \* aoi["positions"][0], and xys[:, 0] on the array of an empty list
    IF aoi.positions = <<>> THEN Raises("IndexError")
    ELSE IF "area" \notin DOMAIN aoi
    THEN Returns([shapely_xy |-> Point(aoi.positions[1]),
                  shapely_lnglat |-> Point(Proj(p, aoi.positions[1], TRUE))]
                 @@ aoi)
    ELSE Returns([shapely_xy |-> Polygon(aoi.positions),
                  shapely_lnglat |->
                     Polygon([i \in DOMAIN aoi.positions |->
                                 Proj(p, aoi.positions[i], TRUE)])] @@ aoi)

\* for poi in pois.values(): ... (one turn)
parse_poi(p, poi) ==
    [shapely_xy |-> Point(poi.position),
     shapely_lnglat |-> Point(Proj(p, poi.position, TRUE))] @@ poi

RECURSIVE SumTo(_, _)
\* s[1] + ... + s[n]
SumTo(s, n) == IF n = 0 THEN 0 ELSE s[n] + SumTo(s, n - 1)

\* unary_union(lines).centroid for lines that share no stretch: the mean of
\* the segment midpoints weighted by segment length, each coordinate as
\* <<numerator, denominator>>.
UnionCentroid(lines) ==
    LET moment(c) ==
            SumTo([i \in DOMAIN lines |->
                      SumTo([j \in 1..(Len(lines[i].coords) - 1) |->
                                SegLen(lines[i], j)
                                * (lines[i].coords[j][c]
                                   + lines[i].coords[j + 1][c])],
                            Len(lines[i].coords) - 1)],
                  Len(lines))
        total == SumTo([i \in DOMAIN lines |-> Length(lines[i])], Len(lines))
    IN  [x |-> <<moment(1), 2 * total>>, y |-> <<moment(2), 2 * total>>]

\* for junc in juncs.values(): ... (one turn)
parse_junc(lanes_data, junc) ==
    IF \E i \in DOMAIN junc.lane_ids : junc.lane_ids[i] \notin DOMAIN lanes_data
    THEN Raises("KeyError")
    ELSE Returns([center |->
                     UnionCentroid([i \in DOMAIN junc.lane_ids |->
                                       lanes_data[junc.lane_ids[i]].shapely_xy])]
                 @@ junc)

\* for road in roads.values(): ... (one turn), on the raw road dict
parse_road_dict(lanes_data, road) ==
    CHOOSE out \in
        {IF r.exc # "none" THEN r
         ELSE Returns([driving_lane_ids |-> r.val.driving_lane_ids,
                       length |-> r.val.length,
                       max_speed |-> r.val.max_speed,
                       shapely_xy |-> r.val.shapely_xy,
                       shapely_lnglat |-> r.val.shapely_lnglat] @@ road) :
           r \in {parse_road(lanes_data, road)}} : TRUE

\* _parse_map after the projector has been built: the loops over the lanes,
\* the roads, the AOIs, the POIs and the junctions, in this order.
parse_geos(hdr, p, raw) ==
    CHOOSE out \in
        {CHOOSE out2 \in
            {IF rest.exc # "none" THEN rest
             ELSE Returns([header |-> hdr, juncs |-> rest.val[3],
                           roads |-> rest.val[1], lanes |-> lanes_data,
                           aois |-> rest.val[2], pois |-> pois_data,
                           projector |-> p]) :
               rest \in
                 {InOrder(<<
                    InOrder([i \in DOMAIN raw.roads |->
                               parse_road_dict(ById(lanes_data), raw.roads[i])]),
                    InOrder([i \in DOMAIN raw.aois |->
                               parse_aoi(p, raw.aois[i])]),
                    InOrder([i \in DOMAIN raw.juncs |->
                               parse_junc(ById(lanes_data), raw.juncs[i])])>>)},
               pois_data \in
                 {[i \in DOMAIN raw.pois |-> parse_poi(p, raw.pois[i])]}} :
            TRUE :
           lanes_data \in
             {[i \in DOMAIN raw.lanes |-> parse_lane(p, raw.lanes[i])]}} : TRUE

\* Mutant of parse_map: a collection without a header is given the header
\* of an empty map.
parse_map_default_header(m) ==
    CHOOSE out \in
        {IF hdr # None /\ ~WellFormed(hdr[1].projection) THEN Raises("CRSError")
         ELSE parse_geos(IF hdr = None THEN [projection |-> ProjectionOrigin]
                         ELSE hdr[1],
                         PyProj(IF hdr = None THEN ProjectionOrigin
                                ELSE hdr[1].projection),
                         [lanes |-> Collect(m, "lane", Len(m)),
                          roads |-> Collect(m, "road", Len(m)),
                          aois |-> Collect(m, "aoi", Len(m)),
                          pois |-> Collect(m, "poi", Len(m)),
                          juncs |-> Collect(m, "junction", Len(m))]) :
           hdr \in {HeaderOf(m)}} : TRUE

\* Map._parse_map(m)
parse_map(m) ==
    CHOOSE out \in
        {\* assert header is not None
         IF hdr = None THEN Raises("AssertionError")
         \* pyproj.Proj(header["projection"])
         ELSE IF ~WellFormed(hdr[1].projection) THEN Raises("CRSError")
         ELSE parse_geos(hdr[1], PyProj(hdr[1].projection),
                         [lanes |-> Collect(m, "lane", Len(m)),
                          roads |-> Collect(m, "road", Len(m)),
                          aois |-> Collect(m, "aoi", Len(m)),
                          pois |-> Collect(m, "poi", Len(m)),
                          juncs |-> Collect(m, "junction", Len(m))]) :
           hdr \in {HeaderOf(m)}} : TRUE

(***************************************************************************)
(* Map._download_map_with_cache and Map.__init__.  A database or          *)
(* collection name is the sequence of its dot-separated parts.             *)
(***************************************************************************)
\* pickle.dump and pickle.load: the bytes written for a value, and the
\* value read back from them.
pickle_dump(v) == [pickle |-> v]
pickle_load(b) == b.pickle

\* os.path.join(cache_dir, f"{db}.{coll}.pkl")
cache_path(cache_dir, db, coll) ==
    [dir |-> cache_dir, name |-> db \o coll \o <<"pkl">>]

\* _download_map(uri, db, coll): list(client[db][coll].find({})), parsed.
download_map(mg, uri, db, coll) ==
    IF mg[<<uri, db, coll>>] = None
    THEN Raises("ServerSelectionTimeoutError")
    ELSE parse_map(mg[<<uri, db, coll>>][1])

\* What the constructor and the cache layer yield: the files and the
\* directories after the call, whether the data source was read, and the
\* outcome.
Loaded(fs, ds, fetched, res) ==
    [files |-> fs, dirs |-> ds, fetched |-> fetched, res |-> res]

\* Mutant of download_map_with_cache: the snapshot is not looked for.
download_map_with_cache_refetch(fs, ds, mg, uri, db, coll, cache_dir) ==
    IF cache_dir = None
    THEN Loaded(fs, ds, TRUE, download_map(mg, uri, db, coll))
    ELSE CHOOSE out \in
            {Loaded(IF m.exc # "none" THEN fs
                    ELSE [p \in (DOMAIN fs)
                                \cup {cache_path(cache_dir[1], db, coll)} |->
                             IF p = cache_path(cache_dir[1], db, coll)
                             THEN pickle_dump(m.val) ELSE fs[p]],
                    ds \cup {cache_dir[1]}, TRUE, m) :
               m \in {download_map(mg, uri, db, coll)}} : TRUE

\* Mutant of download_map_with_cache: the snapshot file is written with
\* whatever the build gave, an exception included.
download_map_with_cache_always_written(fs, ds, mg, uri, db, coll, cache_dir) ==
    IF cache_dir = None
    THEN Loaded(fs, ds, TRUE, download_map(mg, uri, db, coll))
    ELSE IF cache_path(cache_dir[1], db, coll) \in DOMAIN fs
    THEN Loaded(fs, ds \cup {cache_dir[1]}, FALSE,
                Returns(pickle_load(fs[cache_path(cache_dir[1], db, coll)])))
    ELSE CHOOSE out \in
            {Loaded([p \in (DOMAIN fs)
                           \cup {cache_path(cache_dir[1], db, coll)} |->
                        IF p = cache_path(cache_dir[1], db, coll)
                        THEN pickle_dump(m.val) ELSE fs[p]],
                    ds \cup {cache_dir[1]}, TRUE, m) :
               m \in {download_map(mg, uri, db, coll)}} : TRUE

\* Map._download_map_with_cache(uri, db, coll, cache_dir)
download_map_with_cache(fs, ds, mg, uri, db, coll, cache_dir) ==
    IF cache_dir = None
    THEN Loaded(fs, ds, TRUE, download_map(mg, uri, db, coll))
    \* os.makedirs(cache_dir, exist_ok=True); os.path.exists(cache_path)
    ELSE IF cache_path(cache_dir[1], db, coll) \in DOMAIN fs
    THEN Loaded(fs, ds \cup {cache_dir[1]}, FALSE,
                Returns(pickle_load(fs[cache_path(cache_dir[1], db, coll)])))
    ELSE CHOOSE out \in
            {Loaded(\* the file is opened once _download_map has returned
                    IF m.exc # "none" THEN fs
                    ELSE [p \in (DOMAIN fs)
                                \cup {cache_path(cache_dir[1], db, coll)} |->
                             IF p = cache_path(cache_dir[1], db, coll)
                             THEN pickle_dump(m.val) ELSE fs[p]],
                    ds \cup {cache_dir[1]}, TRUE, m) :
               m \in {download_map(mg, uri, db, coll)}} : TRUE

\* The loads that may run at the same time.
Loaders == 1..MaxLoaders

\* os.path.exists(cache_path)
exists(fs, path) == path \in DOMAIN fs

\* A file as the two parts pickle.dump writes it in, the buffer being
\* flushed in between: each part is absent (the file ends before it), holds
\* the bytes of the pickle of a value, or holds the zeros that a write past
\* the end of the file leaves behind.  The file whose two parts are of one
\* value is the pickle of that value.
Zeros == <<0, 0>>
File(head, tail) ==
    IF head # None /\ head # Zeros /\ head = tail THEN pickle_dump(head[1])
    ELSE [head |-> head, tail |-> tail]
HeadOf(b) == IF "pickle" \in DOMAIN b THEN Some(b.pickle) ELSE b.head
TailOf(b) == IF "pickle" \in DOMAIN b THEN Some(b.pickle) ELSE b.tail

\* The file at path holds content b, the other files are left alone.
write(fs, path, b) ==
    [p \in (DOMAIN fs) \cup {path} |-> IF p = path THEN b ELSE fs[p]]

\* Mutant of open_wb: the file is not created under its name until it is
\* complete.
open_wb_aside(fs, path) == fs

\* open(cache_path, "wb"): the file exists from now on and is empty.
open_wb(fs, path) == write(fs, path, File(None, None))

\* f.write of the first part of the pickle of m, at the start of the file.
write_head(fs, path, m) ==
    write(fs, path, File(Some(m), IF exists(fs, path) THEN TailOf(fs[path])
                                  ELSE None))

\* f.write of the rest of the pickle of m, behind its first part: if the
\* file has been truncated since, zeros fill the gap.
write_tail(fs, path, m) ==
    write(fs, path, File(IF exists(fs, path) /\ HeadOf(fs[path]) # None
                         THEN HeadOf(fs[path]) ELSE Zeros,
                         Some(m)))

\* pickle.load(f) of content b: the value of a complete pickle; an empty
\* file ends the input at once; a first part alone ends it too early; and
\* parts of different origin are taken to be no pickle.
pickle_load_outcomes(b) ==
    IF "pickle" \in DOMAIN b THEN {Returns(pickle_load(b))}
    ELSE IF b.head = None THEN {Raises("EOFError")}
    ELSE {Raises("EOFError"), Raises("UnpicklingError")}

\* The records read from a pb file: one per message field of the Map
\* message, the header field first; an unset header reads as the default
\* message, whose projection is the empty string.
pb_jsons(pb) ==
    <<Record("header", IF pb.header = None THEN [projection |-> <<>>]
                       ELSE pb.header[1])>>
    \o [i \in DOMAIN pb.lanes |-> Record("lane", pb.lanes[i])]
    \o [i \in DOMAIN pb.roads |-> Record("road", pb.roads[i])]
    \o [i \in DOMAIN pb.junctions |-> Record("junction", pb.junctions[i])]
    \o [i \in DOMAIN pb.aois |-> Record("aoi", pb.aois[i])]
    \o [i \in DOMAIN pb.pois |-> Record("poi", pb.pois[i])]

\* The attributes of the instance, set from map_data.
Engine(map_data) ==
    [header |-> map_data.header, juncs |-> map_data.juncs,
     lanes |-> map_data.lanes, roads |-> map_data.roads,
     aois |-> map_data.aois, pois |-> map_data.pois,
     projector |-> map_data.projector,
     index |-> BuildGeoIndex(map_data.aois, map_data.pois, map_data.lanes)]

\* Map(mongo_uri, mongo_db, mongo_coll, cache_dir, pb_path), the pb files
\* being pbs: the outcome is the instance, or the exception that leaves the
\* caller without one.
Map_init(fs, ds, mg, pbs, mongo_uri, mongo_db, mongo_coll, cache_dir, pb_path) ==
    CHOOSE out \in
        {IF c.res.exc # "none" THEN c
         ELSE IF pb_path # None
         THEN \* open(pb_path, "rb")
              IF pb_path[1] \notin DOMAIN pbs
              THEN Loaded(c.files, c.dirs, c.fetched,
                          Raises("FileNotFoundError"))
              ELSE CHOOSE out2 \in
                      {Loaded(c.files, c.dirs, c.fetched,
                              IF m.exc # "none" THEN m
                              ELSE Returns(Engine(m.val))) :
                         m \in {parse_map(pb_jsons(pbs[pb_path[1]]))}} : TRUE
         ELSE IF c.res.val = None
         THEN Loaded(c.files, c.dirs, c.fetched, Raises("ValueError"))
         ELSE Loaded(c.files, c.dirs, c.fetched,
                     Returns(Engine(c.res.val[1]))) :
           c \in {IF mongo_uri # None /\ mongo_db # None /\ mongo_coll # None
                  THEN CHOOSE out3 \in
                          {Loaded(d.files, d.dirs, d.fetched,
                                  IF d.res.exc # "none" THEN d.res
                                  ELSE Returns(Some(d.res.val))) :
                             d \in {download_map_with_cache(
                                       fs, ds, mg, mongo_uri[1], mongo_db[1],
                                       mongo_coll[1], cache_dir)}} : TRUE
                  ELSE Loaded(fs, ds, FALSE, Returns(None))}} : TRUE

(***************************************************************************)
(* Routes.  A GetRouteRequest is [type, start, end]; a GetRouteResponse is *)
(* its journeys, each [type, driving |-> [road_ids, eta],                  *)
(* walking |-> [route, eta]], an unset body reading as the empty one.      *)
(***************************************************************************)
DrivingJourneyBody(road_ids, eta) == [road_ids |-> road_ids, eta |-> eta]
WalkingJourneyBody(route, eta) == [route |-> route, eta |-> eta]
WalkingRouteSegment(lane_id, moving_direction) ==
    [lane_id |-> lane_id, moving_direction |-> moving_direction]

DrivingJourney(road_ids, eta) ==
    [type |-> "JOURNEY_TYPE_DRIVING",
     driving |-> DrivingJourneyBody(road_ids, eta),
     walking |-> WalkingJourneyBody(<<>>, 0)]
WalkingJourney(route, eta) ==
    [type |-> "JOURNEY_TYPE_WALKING",
     driving |-> DrivingJourneyBody(<<>>, 0),
     walking |-> WalkingJourneyBody(route, eta)]

GetRouteRequest(type, start, end) == [type |-> type, start |-> start, end |-> end]

\* Mutant of get_driving_geo: the lane is the road's first driving lane.
get_driving_geo_first(road_id) ==
    IF road_id \notin DOMAIN route_roads THEN Raises("KeyError")
    ELSE LET road == route_roads[road_id]
         IN  IF road.driving_lane_ids = <<>> THEN Raises("IndexError")
             ELSE Returns([lane_id |-> road.driving_lane_ids[1],
                           geo |-> road.shapely_xy])

\* Map._get_driving_geo(road_id)
get_driving_geo(road_id) ==
    IF road_id \notin DOMAIN route_roads THEN Raises("KeyError")
    ELSE LET road == route_roads[road_id]
         IN  \* road["driving_lane_ids"][-1]
             IF road.driving_lane_ids = <<>> THEN Raises("IndexError")
             ELSE Returns([lane_id |->
                               road.driving_lane_ids[Len(road.driving_lane_ids)],
                           geo |-> road.shapely_xy])

\* Mutant of get_walking_geo: the moving direction is ignored.
get_walking_geo_forward(segment) ==
    IF segment.lane_id \notin DOMAIN route_lanes THEN Raises("KeyError")
    ELSE Returns([lane_id |-> segment.lane_id,
                  geo |-> route_lanes[segment.lane_id].shapely_xy])

\* Map._get_walking_geo(segment)
get_walking_geo(segment) ==
    IF segment.lane_id \notin DOMAIN route_lanes THEN Raises("KeyError")
    ELSE LET geo == route_lanes[segment.lane_id].shapely_xy
         IN  Returns([lane_id |-> segment.lane_id,
                      geo |-> IF segment.moving_direction
                                   = "MOVING_DIRECTION_BACKWARD"
                              THEN Reverse(geo) ELSE geo])

\* The lane id and the geometry of the i-th segment (1-based) of a journey.
segment_geo(is_walk, journey, i) ==
    IF is_walk THEN get_walking_geo(journey.walking.route[i])
    ELSE get_driving_geo(journey.driving.road_ids[i])

\* Sequencing of calls: the exception of r unwinds, else F continues with
\* the value r returned.
Then(r, F(_)) ==
    CHOOSE out \in {IF x.exc # "none" THEN x ELSE F(x.val) : x \in {r}} : TRUE

RECURSIVE middle_xys(_, _, _, _)
\* _route_to_xys, the loop over route[1:-1]: the coordinates of segments
\* i..last, each complete.
middle_xys(is_walk, journey, i, last) ==
    IF i > last THEN Returns(<<>>)
    ELSE Then(segment_geo(is_walk, journey, i), LAMBDA g :
         Then(middle_xys(is_walk, journey, i + 1, last), LAMBDA rest :
         Returns(g.geo.coords \o rest)))

\* _route_to_xys, one turn of the loop over route_res.journeys, in which
\* n_trim is the segment count the two tests on the end of the journey read.
journey_xys_with(route_req, journey, n_trim) ==
    LET is_walk == route_req.type = "ROUTE_TYPE_WALKING"
        \* the segments of the journey's own kind
        n == IF is_walk THEN Len(journey.walking.route)
             ELSE Len(journey.driving.road_ids)
    IN  \* assert journey.type == ...
        IF journey.type # (IF is_walk THEN "JOURNEY_TYPE_WALKING"
                           ELSE "JOURNEY_TYPE_DRIVING")
        THEN Raises("AssertionError")
        \* route[0], road_ids[0]
        ELSE IF n = 0 THEN Raises("IndexError")
        ELSE
        Then(segment_geo(is_walk, journey, 1), LAMBDA first :
        Then(get_lane_s(route_req.start, first.lane_id), LAMBDA start_s :
        Then(IF n_trim = 1
             THEN Then(get_lane_s(route_req.end, first.lane_id), LAMBDA end_s :
                  Returns(substring(first.geo, start_s, end_s).coords))
             ELSE Returns(substring(first.geo, start_s,
                                    Length(first.geo)).coords),
             LAMBDA head :
        \* route[1:-1], road_ids[1:-1]
        Then(middle_xys(is_walk, journey, 2, n - 1), LAMBDA middle :
        Then(IF n_trim > 1
             THEN Then(segment_geo(is_walk, journey, n), LAMBDA last :
                  Then(get_lane_s(route_req.end, last.lane_id), LAMBDA end_s :
                  Returns(substring(last.geo, 0, end_s).coords)))
             ELSE Returns(<<>>),
             LAMBDA tail :
        Returns(head \o middle \o tail))))))

\* Mutant of journey_xys: the segment count read is that of the journey's
\* own kind, road_ids for a driving journey.
journey_xys_own_kind(route_req, journey) ==
    journey_xys_with(route_req, journey,
                     IF route_req.type = "ROUTE_TYPE_WALKING"
                     THEN Len(journey.walking.route)
                     ELSE Len(journey.driving.road_ids))

\* The loop body as written: both tests read len(journey.walking.route),
\* whatever the kind of the route.
journey_xys(route_req, journey) ==
    journey_xys_with(route_req, journey, Len(journey.walking.route))

RECURSIVE journeys_xys(_, _, _)
\* for journey in route_res.journeys: the coordinates of journeys k.. on.
journeys_xys(route_req, journeys, k) ==
    IF k > Len(journeys) THEN Returns(<<>>)
    ELSE Then(journey_xys(route_req, journeys[k]), LAMBDA here :
         Then(journeys_xys(route_req, journeys, k + 1), LAMBDA rest :
         Returns(here \o rest)))

\* The centroid of the AOI a position names, as a list of one coordinate;
\* nothing for a position that names no AOI.
aoi_center(position) ==
    IF position.aoi_position = None THEN Returns(<<>>)
    ELSE IF position.aoi_position[1] \notin DOMAIN route_aois
    THEN Raises("KeyError")
    ELSE Returns(<<Centroid(route_aois[position.aoi_position[1]].shapely_xy)>>)

\* Mutant of route_to_xys: the centroids are left out.
route_to_xys_bare(route_req, route_res) ==
    IF route_req.type \notin {"ROUTE_TYPE_DRIVING", "ROUTE_TYPE_WALKING"}
    THEN Raises("AssertionError")
    ELSE journeys_xys(route_req, route_res, 1)

\* Map._route_to_xys(route_req, route_res)
route_to_xys(route_req, route_res) ==
    \* assert route_req.type in (DRIVING, WALKING)
    IF route_req.type \notin {"ROUTE_TYPE_DRIVING", "ROUTE_TYPE_WALKING"}
    THEN Raises("AssertionError")
    ELSE Then(journeys_xys(route_req, route_res, 1), LAMBDA coordinates :
         Then(aoi_center(route_req.start), LAMBDA first :
         Then(aoi_center(route_req.end), LAMBDA last :
         Returns(first \o coordinates \o last))))


\* Map.export_route_as_geojson(route_req, route_res, properties), the
\* request and the response given as messages.
export_route_as_geojson(route_req, route_res, properties) ==
    Then(route_to_xys(route_req, route_res), LAMBDA coordinates :
        \* coordinates[:, 0] on the array of an empty list
        IF coordinates = <<>> THEN Raises("IndexError")
        \* LineString of a single coordinate
        ELSE IF Len(coordinates) = 1 THEN Raises("ValueError")
        ELSE Returns([type |-> "Feature",
                      geometry |->
                         LineString([i \in DOMAIN coordinates |->
                                        Proj(projector, coordinates[i], TRUE)]),
                      properties |-> properties]))

RECURSIVE SumEta(_, _, _)
\* sum(j.walking.eta for j in journeys), or of j.driving.eta
SumEta(journeys, body, k) ==
    IF k > Len(journeys) THEN 0
    ELSE (IF body = "walking" THEN journeys[k].walking.eta
          ELSE journeys[k].driving.eta) + SumEta(journeys, body, k + 1)

\* Mutant of estimate_route_time: a walking route is summed as a driving one.
estimate_route_time_driving(route_req, route_res) ==
    Returns(SumEta(route_res, "driving", 1))

\* Map.estimate_route_time(route_req, route_res)
estimate_route_time(route_req, route_res) ==
    LET is_walk == route_req.type = "ROUTE_TYPE_WALKING"
    IN  IF is_walk THEN Returns(SumEta(route_res, "walking", 1))
        ELSE Returns(SumEta(route_res, "driving", 1))

(***************************************************************************)
(* The maps and the inputs the radius queries are checked on.              *)
(***************************************************************************)
C131300 == <<1, 3, 1, 3, 0, 0>>
C131400 == <<1, 3, 1, 4, 0, 0>>
C200000 == <<2, 0, 0, 0, 0, 0>>
C13 == <<1, 3>>

Categories == {C131300, C131400, C200000, C13}
Prefixes == {<<>>, <<1>>, <<1, 3>>, <<1, 3, 1, 3>>, C131300, <<2>>,
             <<1, 3, 1, 4>>, C131300 \o <<0>>}
LandUseLists == {<<>>, <<"R">>, <<"R", "B">>}

Grid == (0..GridMax) \X (0..GridMax)
Radii == 0..MaxRadius
Limits == {None} \cup {Some(n) : n \in 0..MaxLimit}
LaneTypes == 0..3

\* self.pois.values(): the second POI's category and place vary.
PoiMaps ==
    {<<Poi(700, C131300, <<1, 1>>), Poi(701, c, p), Poi(702, C200000, <<3, 1>>)>> :
        c \in {C131400, C13}, p \in {<<2, 2>>, <<1, 1>>}}

\* self.aois.values(): a polygon, an AOI without area (a Point) that may
\* record no urban_land_use, and a second polygon.
AoiMaps ==
    {<<Aoi(500, Rect(<<0, 0>>, <<1, 2>>), TRUE, Some("R")),
       Aoi(501, <<<<3, 0>>>>, FALSE, u),
       Aoi(502, Rect(<<2, 2>>, <<3, 3>>), TRUE, Some("B"))>> :
        u \in {None, Some("B")}}

\* self.lanes.values(): the kind of the bent lane varies.
LaneMaps ==
    {<<Lane(1, 1, <<<<0, 0>>, <<3, 0>>>>),
       Lane(2, 2, <<<<0, 1>>, <<0, 3>>>>),
       Lane(3, t, <<<<1, 3>>, <<3, 3>>, <<3, 1>>>>)>> :
        t \in {1, 2}}

Idle == [op |-> "idle"]

\* The stored entities after the map has been loaded.
LLoaded(sh) ==
    /\ shape = sh
    /\ heap = LoadedHeap(sh)
    /\ aois = LoadedAois
    /\ pois = LoadedPois
    /\ lanes = LoadedLanes
    /\ roads = LoadedRoads
    /\ juncs = LoadedJuncs
    /\ held = {}
    /\ muts = 0
    /\ lcall = Idle

\* A lane as _parse_map leaves it.
RouteLane(id, type, max_speed, nodes) ==
    [id |-> id, type |-> type, max_speed |-> max_speed,
     length |-> Length(LineString(nodes)),
     shapely_xy |-> LineString(nodes),
     shapely_lnglat |->
        LineString([i \in DOMAIN nodes |->
                       Proj(PyProj(ProjectionOrigin), nodes[i], TRUE)])]

\* self.lanes of the map the routes run on: lanes 1, 3, 5 are driving lanes
\* and lanes 2, 4 the walking lanes beside the first two.
RouteLanes ==
    <<RouteLane(1, 1, 16, <<<<0, 0>>, <<2, 0>>, <<2, 1>>>>),
      RouteLane(2, 2, 1, <<<<0, 1>>, <<0, 3>>, <<1, 3>>>>),
      RouteLane(3, 1, 8, <<<<2, 1>>, <<2, 3>>>>),
      RouteLane(4, 2, 1, <<<<1, 3>>, <<3, 3>>>>),
      RouteLane(5, 1, 16, <<<<2, 3>>, <<3, 3>>, <<3, 1>>>>)>>

\* self.roads of that map, each road parsed from its lane_ids.
RouteRoads ==
    LET raw == (RoadId :> <<1, 2>>) @@ ((RoadId + 1) :> <<3, 4>>)
               @@ ((RoadId + 2) :> <<5>>)
               \* three driving lanes; a walking lane listed first
               @@ ((RoadId + 3) :> <<1, 3, 5>>) @@ ((RoadId + 4) :> <<2, 1>>)
    IN  [r \in DOMAIN raw |->
            parse_road(RouteLanes, [id |-> r, lane_ids |-> raw[r]]).val]

\* self.aois of that map: AOI AoiId, a rectangle whose access points vary,
\* and a second AOI, a Point, with an access point on every lane.
RouteAois(walking, driving) ==
    (AoiId :> [id |-> AoiId, walking_positions |-> walking,
               driving_positions |-> driving,
               shapely_xy |-> Polygon(Rect(<<0, 0>>, <<2, 2>>))])
    @@ ((AoiId + 1) :>
            [id |-> AoiId + 1,
             walking_positions |-> <<LanePosition(2, 2), LanePosition(4, 1)>>,
             driving_positions |-> <<LanePosition(1, 2), LanePosition(3, 1),
                                     LanePosition(5, 1)>>,
             shapely_xy |-> Point(<<3, 1>>)])

\* The entities the route code reads after the map has been loaded.
RLoaded(walking, driving) ==
    /\ route_aois = RouteAois(walking, driving)
    /\ route_lanes = RouteLanes
    /\ route_roads = RouteRoads
    /\ rcall = Idle

\* The data sources: two servers that hold a collection of one name.
Uris == {"mongodb://a", "mongodb://b"}
DbNames == {<<"city">>}
CollNames == {<<"map">>}
Sources == Uris \X DbNames \X CollNames

\* A lane as the records carry it.
LaneData(id, type, max_speed, nodes) ==
    [id |-> id, type |-> type, max_speed |-> max_speed,
     length |-> Length(LineString(nodes)), center_line |-> [nodes |-> nodes]]

\* Lanes 1, 3 and 5 are driving lanes, lane 2 is a walking lane.
LaneRecords ==
    <<Record("lane", LaneData(1, 1, 16, <<<<0, 0>>, <<2, 0>>, <<2, 1>>>>)),
      Record("lane", LaneData(2, 2, 1, <<<<0, 1>>, <<0, 3>>, <<1, 3>>>>)),
      Record("lane", LaneData(3, 1, 8, <<<<2, 1>>, <<2, 3>>>>)),
      Record("lane", LaneData(5, 1, 12, <<<<2, 3>>, <<3, 3>>, <<3, 1>>>>))>>

RECURSIVE LaneIdListsOf(_)
\* The lists of at most n lanes of LaneRecords, no lane twice.
LaneIdListsOf(n) ==
    IF n = 0 THEN {<<>>}
    ELSE LaneIdListsOf(n - 1)
         \cup {Append(l, LaneRecords[k].data.id) :
                 <<l, k>> \in
                   {<<a, b>> \in LaneIdListsOf(n - 1) \X DOMAIN LaneRecords :
                       /\ Len(a) = n - 1
                       /\ \A i \in DOMAIN a : a[i] # LaneRecords[b].data.id}}
LaneIdLists == LaneIdListsOf(MaxRoadLanes)

HeaderRecord(projection) ==
    Record("header", [name |-> "map", projection |-> projection])

\* The records of a map of one road over the four lanes, with or without a
\* header record.
RoadMap(with_header, lane_ids) ==
    (IF with_header THEN <<HeaderRecord(ProjectionOrigin)>> ELSE <<>>)
    \o LaneRecords
    \o <<Record("road", [id |-> RoadId, lane_ids |-> lane_ids])>>

\* The records of a map with every kind of record: an AOI with the given
\* positions (a polygon when it has an area), a POI, a junction over the
\* given lanes, a record of a class the loader does not know, and a second
\* record for lane 3.
FullMap(projection, positions, area, junc_lane_ids) ==
    <<Record("unknown", [id |-> RoadId])>>
    \o LaneRecords
    \o <<Record("road", [id |-> RoadId, lane_ids |-> <<1, 3, 2>>]),
         Record("aoi", IF area
                       THEN [id |-> AoiId, positions |-> positions,
                             area |-> 4]
                       ELSE [id |-> AoiId, positions |-> positions]),
         Record("poi", [id |-> PoiId, position |-> <<1, 1>>]),
         Record("junction", [id |-> JunctionId, lane_ids |-> junc_lane_ids]),
         Record("lane", LaneData(3, 1, 4, <<<<2, 1>>, <<2, 2>>>>)),
         HeaderRecord(projection)>>

\* The record collections a data source may hold.
Collections ==
    {RoadMap(TRUE, l) : l \in LaneIdLists}
    \cup {RoadMap(FALSE, l) : l \in {<<>>, <<1>>, <<2, 1>>}}
    \cup {<<>>}
    \cup {FullMap(p, ps, a, j) :
            p \in {ProjectionOrigin, <<>>},
            ps \in {<<>>, Rect(<<0, 0>>, <<2, 2>>)},
            a \in BOOLEAN,
            j \in {<<1>>, <<1, 3>>, <<1, 4>>}}

\* What a data source is rewritten to: a map that builds, or the server
\* goes away.
Rewrites == {Some(RoadMap(TRUE, <<3, 1>>)), None}

\* The pb files: one whose header is set, one whose header is not.
PbFiles ==
    ("map.pb" :> [header |-> Some([name |-> "map",
                                   projection |-> ProjectionOrigin]),
                  lanes |-> [i \in DOMAIN LaneRecords |-> LaneRecords[i].data],
                  roads |-> <<[id |-> RoadId, lane_ids |-> <<5>>]>>,
                  junctions |-> <<>>, aois |-> <<>>, pois |-> <<>>])
    @@ ("bare.pb" :> [header |-> None, lanes |-> <<>>, roads |-> <<>>,
                      junctions |-> <<>>, aois |-> <<>>, pois |-> <<>>])

\* The header and the projector after the map has been loaded.
FLoaded ==
    /\ header = LoadedHeader
    /\ projector = PyProj(ProjectionOrigin)
    /\ fcall = Idle

\* The knowledge-graph client of the runs that do not use it.
KLoaded ==
    /\ relation_coll = <<>>
    /\ relation_cache = <<>>
    /\ kcall = [op |-> "idle"]

\* The data source and the cache directory of the runs that load no map.
OLoaded ==
    /\ mongo = [src \in Sources |-> None]
    /\ files = <<>>
    /\ dirs = {}
    /\ ocall = Idle
    /\ loading = [p \in Loaders |-> Idle]
    /\ KLoaded

\* The spatial indexes after the map has been loaded.
QLoaded(a, p, l) ==
    LET idx == BuildGeoIndex(a, p, l)
    IN  /\ aoi_list = idx.aoi_list
        /\ poi_list = idx.poi_list
        /\ lane_values = l
        /\ driving_lane_list = idx.driving_lane_list
        /\ walking_lane_list = idx.walking_lane_list

QInit ==
    /\ \E a \in AoiMaps, p \in PoiMaps, l \in LaneMaps : QLoaded(a, p, l)
    /\ tree_rev \in BOOLEAN
    /\ qcall = Idle
    /\ LLoaded("full")
    /\ RLoaded(<<LanePosition(2, 1)>>, <<LanePosition(1, 2)>>)
    /\ FLoaded
    /\ OLoaded

QMapUnchanged ==
    /\ UNCHANGED <<aoi_list, poi_list, lane_values, driving_lane_list,
                   walking_lane_list, tree_rev>>
    /\ UNCHANGED <<lvars, rvars, fvars, ovars, kvars>>

QueryPois ==
    /\ qcall.op = "idle"
    /\ \E center \in Grid, radius \in Radii, prefix \in Prefixes, limit \in Limits :
          qcall' = [op |-> "query_pois", center |-> center, radius |-> radius,
                    category_prefix |-> prefix, limit |-> limit,
                    res |-> query_pois(center, radius, prefix, limit)]
    /\ QMapUnchanged

QueryAois ==
    /\ qcall.op = "idle"
    /\ \E center \in Grid, radius \in Radii,
          uses \in {None} \cup {Some(u) : u \in LandUseLists}, limit \in Limits :
          qcall' = [op |-> "query_aois", center |-> center, radius |-> radius,
                    urban_land_uses |-> uses, limit |-> limit,
                    res |-> query_aois(center, radius, uses, limit)]
    /\ QMapUnchanged

QueryLane ==
    /\ qcall.op = "idle"
    /\ \E xy \in Grid, radius \in Radii, lane_type \in LaneTypes :
          qcall' = [op |-> "query_lane", center |-> xy, radius |-> radius,
                    lane_type |-> lane_type,
                    res |-> query_lane(xy, radius, lane_type)]
    /\ QMapUnchanged

\* The caller takes the result; the next call may start.
QReturn ==
    /\ qcall.op # "idle"
    /\ qcall' = Idle
    /\ QMapUnchanged

QNext == QueryPois \/ QueryAois \/ QueryLane \/ QReturn

SpecQuery == QInit /\ [][QNext]_vars

(***************************************************************************)
(* The ID lookups and the caller's mutations of what they returned         *)
(***************************************************************************)
(***************************************************************************)
(* The header, the coordinate conversions and the GeoJSON exports          *)
(***************************************************************************)
\* get_header returns self.header itself.
get_header == Returns(header)

lnglat2xy(lng, lat) == Returns(Proj(projector, <<lng, lat>>, FALSE))

\* Mutant of xy2lnglat: inverse=True is left out.
xy2lnglat_forward(x, y) == Returns(Proj(projector, <<x, y>>, FALSE))

xy2lnglat(x, y) == Returns(Proj(projector, <<x, y>>, TRUE))

\* str(n) of a number n: its decimal text, which no other number has.
str(n) == [str |-> n]

\* dict(Feature(id=id, geometry=geometry, properties=properties))
Feature(id, geometry, properties) ==
    [type |-> "Feature", id |-> id, geometry |-> geometry,
     properties |-> properties]

\* [str(pid) for pid in ids], ids being the list at address a
StrEach(h, a) == [k \in DOMAIN h[a] |-> str(h[a][k].v)]

\* aoi.get("land_use", 0)
LandUseOf(aoi) == IF "land_use" \in DOMAIN aoi THEN aoi.land_use.v ELSE 0

\* The geometry each export gives its feature: the AOI centre export takes
\* the centroid of the outline, the others the stored geometry.
export_geometry(op, g) ==
    IF op = "export_aoi_center_as_geojson" THEN [centroid |-> g] ELSE g

\* The properties each export computes when the caller gave none, from the
\* copy doc in the heap hc.  export_road_as_geojson passes its properties
\* argument on whatever it is.
export_properties(op, id, hc, doc, properties) ==
    CASE op = "export_aoi_center_as_geojson" ->
           [point_type |-> "aoi", id |-> str(id),
            aoi_type |-> str(LandUseOf(doc)),
            poi_ids |-> StrEach(hc, doc.poi_ids.v)]
      [] op = "export_aoi_as_geojson" ->
           [aoi_type |-> str(LandUseOf(doc)),
            poi_ids |-> IF "poi_ids" \in DOMAIN doc
                        THEN StrEach(hc, doc.poi_ids.v)
                        ELSE <<>>]
      [] op = "export_poi_as_geojson" ->
           [point_type |-> "poi", id |-> str(id),
            poi_type |-> doc.category.v, name |-> doc.name.v,
            address |-> ""]
      [] op = "export_lane_as_geojson" ->
           [id |-> str(id), lane_type |-> str(doc.type.v),
            lane_turn |-> str(doc.turn.v),
            parent_id |-> str(doc.parent_id.v),
            max_speed |-> doc.max_speed.v]
      [] op = "export_road_as_geojson" -> properties

\* What the five entity exports share.  c is what the get_* call yielded:
\* its exception goes on to the caller, None fails the assert, and the
\* feature is built from the copy, subscripted being the keys read with
\* doc[key] when properties is "auto".
export_feature(op, c, id, properties, subscripted) ==
    IF c.res.exc # "none" THEN c
    ELSE IF c.res.val = None THEN Outcome(c.heap, Raises("AssertionError"))
    ELSE LET doc == c.heap[c.res.val[1]]
             read == IF properties = "auto"
                     THEN subscripted \cup {"shapely_lnglat"}
                     ELSE {"shapely_lnglat"}
         IN  IF ~(read \subseteq DOMAIN doc)
             THEN Outcome(c.heap, Raises("KeyError"))
             ELSE Outcome(c.heap,
                          Returns(Feature(id,
                                          export_geometry(
                                              op, doc.shapely_lnglat.v),
                                          IF properties = "auto"
                                          THEN export_properties(
                                                   op, id, c.heap, doc,
                                                   properties)
                                          ELSE properties)))

export_aoi_center_as_geojson(h, id, properties) ==
    export_feature("export_aoi_center_as_geojson", get_aoi(h, id, FALSE),
                   id, properties, {"poi_ids"})

export_aoi_as_geojson(h, id, properties) ==
    export_feature("export_aoi_as_geojson", get_aoi(h, id, FALSE),
                   id, properties, {})

export_poi_as_geojson(h, id, properties) ==
    export_feature("export_poi_as_geojson", get_poi(h, id, FALSE),
                   id, properties, {"category", "name"})

export_lane_as_geojson(h, id, properties) ==
    export_feature("export_lane_as_geojson", get_lane(h, id, FALSE),
                   id, properties,
                   {"type", "turn", "parent_id", "max_speed"})

export_road_as_geojson(h, id, properties) ==
    export_feature("export_road_as_geojson", get_road(h, id, FALSE),
                   id, properties, {})

\* One loaded map's spatial indexes, for the runs that make no radius query.
QLoadedOne ==
    /\ \E a \in AoiMaps, p \in PoiMaps, l \in LaneMaps :
          /\ a[2].id = 501 /\ "urban_land_use" \in DOMAIN a[2]
          /\ p[2].category = C131400 /\ p[2].position = <<2, 2>>
          /\ l[3].type = 1
          /\ QLoaded(a, p, l)
    /\ tree_rev = FALSE
    /\ qcall = Idle

LInit ==
    /\ \E sh \in Shapes : LLoaded(sh)
    /\ QLoadedOne
    /\ RLoaded(<<LanePosition(2, 1)>>, <<LanePosition(1, 2)>>)
    /\ FLoaded
    /\ OLoaded

\* A get_* call runs while no other call is in flight; the caller keeps the
\* value it gets.
Call(op, id, include_unused, out) ==
    /\ lcall.op = "idle"
    /\ out.res.val # None => Cardinality(held) < MaxHeld
    /\ heap' = out.heap
    /\ held' = IF out.res.val = None THEN held
               ELSE held \cup {[addr |-> out.res.val[1], op |-> op, id |-> id]}
    /\ lcall' = [op |-> op, id |-> id, include_unused |-> include_unused,
                 res |-> out.res]
    /\ UNCHANGED <<aois, pois, lanes, roads, juncs, shape, muts>>
    /\ UNCHANGED <<qvars, rvars, fvars, ovars, kvars>>

GetAoi ==
    \E id \in LookupIds("get_aoi"), f \in BOOLEAN :
        Call("get_aoi", id, f, get_aoi(heap, id, f))

GetPoi ==
    \E id \in LookupIds("get_poi"), f \in BOOLEAN :
        Call("get_poi", id, f, get_poi(heap, id, f))

GetLane ==
    \E id \in LookupIds("get_lane"), f \in BOOLEAN :
        Call("get_lane", id, f, get_lane(heap, id, f))

GetRoad ==
    \E id \in LookupIds("get_road"), f \in BOOLEAN :
        Call("get_road", id, f, get_road(heap, id, f))

GetJunction ==
    \E id \in LookupIds("get_junction"), f \in BOOLEAN :
        Call("get_junction", id, f, get_junction(heap, id, f))

Dirty == Atom(0 - 1)

\* The caller mutates a value it holds, all the way down: in every dict and
\* list reachable from it, it overwrites each plain entry and adds one, or it
\* empties them all.
Mutate ==
    /\ lcall.op = "idle"
    /\ muts < MaxMut
    /\ \E r \in held :
          LET mine == Reach(heap, r.addr)
          IN  \/ heap' = [x \in DOMAIN heap |->
                            IF x \notin mine THEN heap[x]
                            ELSE [k \in (DOMAIN heap[x]) \cup {"injected"} |->
                                    IF k \in DOMAIN heap[x] /\ heap[x][k].ref
                                    THEN heap[x][k] ELSE Dirty]]
              \/ heap' = [x \in DOMAIN heap |->
                            IF x \notin mine THEN heap[x] ELSE <<>>]
    /\ muts' = muts + 1
    /\ UNCHANGED <<aois, pois, lanes, roads, juncs, shape, held, lcall>>
    /\ UNCHANGED <<qvars, rvars, fvars, ovars, kvars>>

\* The caller has taken the result; the next call may start.
LReturn ==
    /\ lcall.op # "idle"
    /\ lcall' = Idle
    /\ UNCHANGED <<heap, aois, pois, lanes, roads, juncs, shape, held, muts>>
    /\ UNCHANGED <<qvars, rvars, fvars, ovars, kvars>>

LNext ==
    GetAoi \/ GetPoi \/ GetLane \/ GetRoad \/ GetJunction \/ Mutate \/ LReturn

SpecLookup == LInit /\ [][LNext]_vars

(***************************************************************************)
(* Resolving route positions                                               *)
(***************************************************************************)
RouteLaneIds == {1, 2, 3}
SValues == 0..MaxS
AccessPoints == {LanePosition(l, v) : l \in {1, 2}, v \in SValues}

\* The access-point lists an AOI may record.
WalkingLists == {<<>>} \cup {<<q>> : q \in AccessPoints}
DrivingLists ==
    {<<>>} \cup {<<q>> : q \in AccessPoints}
           \cup {<<q, r>> : q \in AccessPoints, r \in AccessPoints}

\* The positions a route request may name as its start or end: an AOI the
\* map has or lacks, a lane position, both, or neither.
Positions ==
    {Position(Some(a), None) : a \in {AoiId, PoiId}}
    \cup {Position(None, Some(q)) : q \in AccessPoints}
    \cup {Position(Some(AoiId), Some(LanePosition(1, v))) : v \in SValues}
    \cup {Position(None, None)}

\* The positions a route request names as its start and as its end.
RouteStarts ==
    {Position(Some(AoiId), None), Position(Some(AoiId + 1), None),
     Position(None, Some(LanePosition(1, 1)))}
RouteEnds ==
    {Position(Some(AoiId), None), Position(Some(AoiId + 1), None),
     Position(None, Some(LanePosition(1, 2))),
     Position(None, Some(LanePosition(1, 0)))}
RouteTypes ==
    {"ROUTE_TYPE_UNSPECIFIED", "ROUTE_TYPE_DRIVING", "ROUTE_TYPE_WALKING"}

Forward(lane_id) == WalkingRouteSegment(lane_id, "MOVING_DIRECTION_FORWARD")
Backward(lane_id) == WalkingRouteSegment(lane_id, "MOVING_DIRECTION_BACKWARD")

\* The journeys a routing result is made of: over one, two and three roads,
\* and over one, two and three walking segments.
DrivingJourneys ==
    <<DrivingJourney(<<RoadId>>, 3),
      DrivingJourney(<<RoadId, RoadId + 1>>, 5),
      DrivingJourney(<<RoadId, RoadId + 1, RoadId + 2>>, 8),
      DrivingJourney(<<RoadId + 3, RoadId + 1>>, 6)>>
WalkingJourneys ==
    <<WalkingJourney(<<Forward(2)>>, 30),
      WalkingJourney(<<Backward(2)>>, 31),
      WalkingJourney(<<Forward(2), Backward(4)>>, 50),
      WalkingJourney(<<Forward(2), Forward(4), Backward(2)>>, 80)>>

\* The routing results: no journey, one journey, two journeys.
RouteResponses ==
    {<<>>}
    \cup {<<DrivingJourneys[i]>> : i \in DOMAIN DrivingJourneys}
    \cup {<<WalkingJourneys[i]>> : i \in DOMAIN WalkingJourneys}
    \cup {<<DrivingJourneys[1], DrivingJourneys[2]>>,
          <<DrivingJourneys[2], DrivingJourneys[1]>>,
          <<WalkingJourneys[1], WalkingJourneys[3]>>,
          <<WalkingJourneys[3], WalkingJourneys[2]>>,
          <<DrivingJourneys[1], WalkingJourneys[1]>>}

RInit ==
    /\ \E w \in WalkingLists, d \in DrivingLists : RLoaded(w, d)
    /\ QLoadedOne
    /\ LLoaded("full")
    /\ FLoaded
    /\ OLoaded

\* The route calls assign no attribute of self.
RMapUnchanged ==
    /\ UNCHANGED <<route_aois, route_lanes, route_roads>>
    /\ UNCHANGED <<qvars, lvars, fvars, ovars, kvars>>

GetLaneS ==
    /\ rcall.op = "idle"
    /\ \E position \in Positions, lane_id \in RouteLaneIds :
          rcall' = [op |-> "_get_lane_s", position |-> position,
                    lane_id |-> lane_id, res |-> get_lane_s(position, lane_id)]
    /\ RMapUnchanged

\* The walking segments a routing result may hold: over a walking lane, a
\* driving lane or a lane the map lacks, in either direction or none.
WalkingSegments ==
    {WalkingRouteSegment(l, d) :
        l \in {2, 3, 4, 6},
        d \in {"MOVING_DIRECTION_UNSPECIFIED", "MOVING_DIRECTION_FORWARD",
               "MOVING_DIRECTION_BACKWARD"}}

GetWalkingGeo ==
    /\ rcall.op = "idle"
    /\ \E segment \in WalkingSegments :
          rcall' = [op |-> "_get_walking_geo", segment |-> segment,
                    res |-> get_walking_geo(segment)]
    /\ RMapUnchanged

GetDrivingGeo ==
    /\ rcall.op = "idle"
    /\ \E road_id \in (DOMAIN route_roads) \cup {RoadId - 1} :
          rcall' = [op |-> "_get_driving_geo", road_id |-> road_id,
                    res |-> get_driving_geo(road_id)]
    /\ RMapUnchanged

ExportRouteAsGeojson ==
    /\ rcall.op = "idle"
    /\ \E type \in RouteTypes, start \in RouteStarts, end \in RouteEnds,
          route_res \in RouteResponses :
          LET route_req == GetRouteRequest(type, start, end)
          IN  rcall' = [op |-> "export_route_as_geojson",
                        route_req |-> route_req, route_res |-> route_res,
                        \* what each turn of the loop over the journeys adds
                        journeys |-> [k \in DOMAIN route_res |->
                                        journey_xys(route_req, route_res[k])],
                        xys |-> route_to_xys(route_req, route_res),
                        res |-> export_route_as_geojson(route_req, route_res,
                                                        <<>>)]
    /\ RMapUnchanged

EstimateRouteTime ==
    /\ rcall.op = "idle"
    /\ \E type \in RouteTypes, route_res \in RouteResponses :
          LET route_req == GetRouteRequest(type, Position(Some(AoiId), None),
                                           Position(Some(AoiId + 1), None))
          IN  rcall' = [op |-> "estimate_route_time",
                        route_req |-> route_req, route_res |-> route_res,
                        res |-> estimate_route_time(route_req, route_res)]
    /\ RMapUnchanged

\* The caller has taken the result (or the exception has unwound the call).
RReturn ==
    /\ rcall.op # "idle"
    /\ rcall' = Idle
    /\ RMapUnchanged

RNext ==
    \/ GetLaneS
    \/ GetWalkingGeo
    \/ GetDrivingGeo
    \/ ExportRouteAsGeojson
    \/ EstimateRouteTime
    \/ RReturn

SpecRoute == RInit /\ [][RNext]_vars

(***************************************************************************)
(* Every call of the query layer, one at a time                            *)
(***************************************************************************)
\* What a caller passes as properties: "auto", or a dict of its own.
ExportProperties == {"auto", "given"}

\* The longitudes and latitudes the grid is projected from.
LngLats == {Proj(PyProj(ProjectionOrigin), xy, TRUE) : xy \in Grid}

FInit ==
    /\ \E sh \in Shapes : LLoaded(sh)
    /\ QLoadedOne
    /\ RLoaded(<<LanePosition(2, 1)>>, <<LanePosition(1, 2)>>)
    /\ FLoaded
    /\ OLoaded

\* No call is in flight.
AllIdle ==
    /\ qcall.op = "idle"
    /\ lcall.op = "idle"
    /\ rcall.op = "idle"
    /\ fcall.op = "idle"

FMapUnchanged ==
    /\ UNCHANGED <<header, projector>>
    /\ UNCHANGED <<qvars, rvars, ovars, kvars>>
    /\ UNCHANGED <<aois, pois, lanes, roads, juncs, shape, held, muts, lcall>>

\* An export runs; the copy it took from get_* is on the heap.
Export(op, id, properties, out) ==
    /\ AllIdle
    /\ heap' = out.heap
    /\ fcall' = [op |-> op, id |-> id, properties |-> properties,
                 res |-> out.res]
    /\ FMapUnchanged

ExportAoiCenterAsGeojson ==
    \E id \in LookupIds("get_aoi"), properties \in ExportProperties :
        Export("export_aoi_center_as_geojson", id, properties,
               export_aoi_center_as_geojson(heap, id, properties))

ExportAoiAsGeojson ==
    \E id \in LookupIds("get_aoi"), properties \in ExportProperties :
        Export("export_aoi_as_geojson", id, properties,
               export_aoi_as_geojson(heap, id, properties))

ExportPoiAsGeojson ==
    \E id \in LookupIds("get_poi"), properties \in ExportProperties :
        Export("export_poi_as_geojson", id, properties,
               export_poi_as_geojson(heap, id, properties))

ExportLaneAsGeojson ==
    \E id \in LookupIds("get_lane"), properties \in ExportProperties :
        Export("export_lane_as_geojson", id, properties,
               export_lane_as_geojson(heap, id, properties))

ExportRoadAsGeojson ==
    \E id \in LookupIds("get_road"), properties \in ExportProperties :
        Export("export_road_as_geojson", id, properties,
               export_road_as_geojson(heap, id, properties))

Lnglat2xy ==
    /\ AllIdle
    /\ \E lnglat \in LngLats :
          fcall' = [op |-> "lnglat2xy", lnglat |-> lnglat,
                    res |-> lnglat2xy(lnglat[1], lnglat[2])]
    /\ UNCHANGED heap
    /\ FMapUnchanged

Xy2lnglat ==
    /\ AllIdle
    /\ \E xy \in Grid :
          fcall' = [op |-> "xy2lnglat", xy |-> xy,
                    res |-> xy2lnglat(xy[1], xy[2])]
    /\ UNCHANGED heap
    /\ FMapUnchanged

GetHeader ==
    /\ AllIdle
    /\ fcall' = [op |-> "get_header", res |-> get_header]
    /\ UNCHANGED heap
    /\ FMapUnchanged

\* The radius queries, the ID lookups and the route calls, each started
\* while no other call is in flight.
FQueryPois == AllIdle /\ QueryPois
FQueryAois == AllIdle /\ QueryAois
FQueryLane == AllIdle /\ QueryLane
FGetAoi == AllIdle /\ GetAoi
FGetPoi == AllIdle /\ GetPoi
FGetLane == AllIdle /\ GetLane
FGetRoad == AllIdle /\ GetRoad
FGetJunction == AllIdle /\ GetJunction
FExportRouteAsGeojson == AllIdle /\ ExportRouteAsGeojson
FEstimateRouteTime == AllIdle /\ EstimateRouteTime

\* The objects the engine itself refers to.
Kept ==
    UNION {Reach(heap, a) :
             a \in {header} \cup UNION {{m[id] : id \in DOMAIN m} :
                                          m \in {aois, pois, lanes, roads,
                                                 juncs}}}

\* The caller takes the result and lets go of it: the copies the call made
\* are collected, and the next call may start.
FReturn ==
    /\ ~AllIdle
    /\ qcall' = Idle
    /\ lcall' = Idle
    /\ rcall' = Idle
    /\ fcall' = Idle
    /\ held' = {}
    /\ heap' = [a \in Kept |-> heap[a]]
    /\ UNCHANGED <<aoi_list, poi_list, lane_values, driving_lane_list,
                   walking_lane_list, tree_rev>>
    /\ UNCHANGED <<route_aois, route_lanes, route_roads>>
    /\ UNCHANGED <<aois, pois, lanes, roads, juncs, shape, muts>>
    /\ UNCHANGED <<header, projector>>
    /\ UNCHANGED <<ovars, kvars>>

FNext ==
    \/ FQueryPois \/ FQueryAois \/ FQueryLane
    \/ FGetAoi \/ FGetPoi \/ FGetLane \/ FGetRoad \/ FGetJunction
    \/ ExportAoiCenterAsGeojson \/ ExportAoiAsGeojson \/ ExportPoiAsGeojson
    \/ ExportLaneAsGeojson \/ ExportRoadAsGeojson
    \/ FExportRouteAsGeojson \/ FEstimateRouteTime
    \/ Lnglat2xy \/ Xy2lnglat \/ GetHeader
    \/ FReturn

SpecFrame == FInit /\ [][FNext]_vars

(***************************************************************************)
(* UrbanKG (urbankg/kg.py): the relation queries and their shared cache.   *)
(* An entity is written as its id; LRU is the mapping of the lru package,  *)
(* written as the sequence of its items, most recently used first.         *)
(***************************************************************************)
\* key in cache
lru_contains(cache, key) == \E i \in DOMAIN cache : cache[i].key = key

\* cache[key], for a key the cache holds
lru_value(cache, key) ==
    cache[CHOOSE i \in DOMAIN cache : cache[i].key = key].value

\* The cache after cache[key] has been read: the item is the most recent.
lru_touch(cache, key) ==
    <<[key |-> key, value |-> lru_value(cache, key)]>>
    \o SelectSeq(cache, LAMBDA item : item.key # key)

\* cache[key] = value: the item is the most recent, and the least recently
\* used item goes when the cache is full.
lru_set(cache, key, value) ==
    LET items == <<[key |-> key, value |-> value]>>
                 \o SelectSeq(cache, LAMBDA item : item.key # key)
    IN  SubSeq(items, 1, Min(Len(items), MaxCache))

\* The entities of the entity collection.
KgEntities == {"", "a", "b"}

\* The aggregation of query_object: the objects of the documents of the
\* subject and the relation that are entities, in collection order.
aggregate_object(coll, subject_id, relation) ==
    LET hits == SelectSeq(coll, LAMBDA d : /\ d.subject = subject_id
                                           /\ d.relation = relation
                                           /\ d.object \in KgEntities)
    IN  [k \in DOMAIN hits |-> hits[k].object]

\* The aggregation of query_subject.
aggregate_subject(coll, object_id, relation) ==
    LET hits == SelectSeq(coll, LAMBDA d : /\ d.relation = relation
                                           /\ d.object = object_id
                                           /\ d.subject \in KgEntities)
    IN  [k \in DOMAIN hits |-> hits[k].subject]

\* The aggregation of explore: (relation, object) of the documents of the
\* subject whose relation is one of relations.
aggregate_explore(coll, subject_id, relations) ==
    LET hits == SelectSeq(coll, LAMBDA d : /\ d.subject = subject_id
                                           /\ InList(d.relation, relations)
                                           /\ d.object \in KgEntities)
    IN  [k \in DOMAIN hits |-> <<hits[k].relation, hits[k].object>>]

\* The part the three queries share: the cached value when the cache holds
\* the key, else the computed result, which is cached.
cached(cache, key, result) ==
    IF lru_contains(cache, key)
    THEN [cache |-> lru_touch(cache, key), hit |-> TRUE,
          res |-> Returns(lru_value(cache, key))]
    ELSE [cache |-> lru_set(cache, key, result), hit |-> FALSE,
          res |-> Returns(result)]

\* UrbanKG.query_object(subject_id, relation)
query_object(cache, coll, subject_id, relation) ==
    cached(cache, <<subject_id, relation, "">>,
           aggregate_object(coll, subject_id, relation))

\* UrbanKG.query_subject(object_id, relation)
query_subject(cache, coll, object_id, relation) ==
    cached(cache, <<"", relation, object_id>>,
           aggregate_subject(coll, object_id, relation))

\* UrbanKG.explore(subject_id, relations)
explore(cache, coll, subject_id, relations) ==
    cached(cache, <<subject_id, relations>>,
           aggregate_explore(coll, subject_id, relations))

\* The ids and the relations the calls name, and the relation collections.
KgIds == {"", "a"}
KgRelations == {"NearBy", "LocateAt"}
KgRelationLists == {<<"NearBy">>, <<"NearBy", "LocateAt">>}
Relation(subject, relation, object) ==
    [subject |-> subject, relation |-> relation, object |-> object]
KgCollections ==
    {<<Relation("", "NearBy", "a"), Relation("b", "NearBy", ""),
       Relation("a", r, "b"), Relation("a", "LocateAt", "")>> :
        r \in KgRelations}

KInit ==
    /\ relation_coll \in KgCollections
    /\ relation_cache = <<>>
    /\ kcall = Idle
    /\ mongo = [src \in Sources |-> None]
    /\ files = <<>>
    /\ dirs = {}
    /\ ocall = Idle
    /\ loading = [p \in Loaders |-> Idle]
    /\ QLoadedOne
    /\ LLoaded("full")
    /\ RLoaded(<<LanePosition(2, 1)>>, <<LanePosition(1, 2)>>)
    /\ FLoaded

KUnchanged ==
    /\ UNCHANGED relation_coll
    /\ UNCHANGED <<qvars, lvars, rvars, fvars, ovars>>

QueryObject ==
    /\ kcall.op = "idle"
    /\ \E subject_id \in KgIds, relation \in KgRelations :
          \E out \in {query_object(relation_cache, relation_coll,
                                   subject_id, relation)} :
             /\ relation_cache' = out.cache
             /\ kcall' = [op |-> "query_object", id |-> subject_id,
                          relations |-> <<relation>>, hit |-> out.hit,
                          res |-> out.res]
    /\ KUnchanged

QuerySubject ==
    /\ kcall.op = "idle"
    /\ \E object_id \in KgIds, relation \in KgRelations :
          \E out \in {query_subject(relation_cache, relation_coll,
                                    object_id, relation)} :
             /\ relation_cache' = out.cache
             /\ kcall' = [op |-> "query_subject", id |-> object_id,
                          relations |-> <<relation>>, hit |-> out.hit,
                          res |-> out.res]
    /\ KUnchanged

Explore ==
    /\ kcall.op = "idle"
    /\ \E subject_id \in KgIds, relations \in KgRelationLists :
          \E out \in {explore(relation_cache, relation_coll,
                              subject_id, relations)} :
             /\ relation_cache' = out.cache
             /\ kcall' = [op |-> "explore", id |-> subject_id,
                          relations |-> relations, hit |-> out.hit,
                          res |-> out.res]
    /\ KUnchanged

\* The caller has taken the result; the next call may start.
KReturn ==
    /\ kcall.op # "idle"
    /\ kcall' = Idle
    /\ UNCHANGED relation_cache
    /\ KUnchanged

KNext == QueryObject \/ QuerySubject \/ Explore \/ KReturn

SpecKG == KInit /\ [][KNext]_vars

(***************************************************************************)
(* The caller changes what a call handed out                               *)
(***************************************************************************)
\* dict.__setitem__
setitem(d, key, value) ==
    [k \in (DOMAIN d) \cup {key} |-> IF k = key THEN value ELSE d[k]]

\* A list whose element e has become e2: the list holds the dict itself, so
\* a change made through any other name of the dict shows in the list.
Aliased(list, e, e2) ==
    [i \in DOMAIN list |-> IF list[i] = e THEN e2 ELSE list[i]]

\* The caller writes a category into an entity of the result tuples of a
\* radius query.  query_pois, query_aois and query_lane put the elements of
\* _poi_list, _aoi_list and the lane lists into their results as they are,
\* so the write lands in the dict those lists hold.
MutateEntity ==
    /\ qcall.op \in {"query_pois", "query_aois", "query_lane"}
    /\ qcall.res.exc = "none"
    /\ muts < MaxMut
    /\ \E k \in DOMAIN qcall.res.val, value \in Categories :
          \E e2 \in {setitem(qcall.res.val[k][1], "category", value)} :
             /\ e2 # qcall.res.val[k][1]
             /\ poi_list' = Aliased(poi_list, qcall.res.val[k][1], e2)
             /\ aoi_list' = Aliased(aoi_list, qcall.res.val[k][1], e2)
             /\ lane_values' = Aliased(lane_values, qcall.res.val[k][1], e2)
             /\ driving_lane_list'
                  = Aliased(driving_lane_list, qcall.res.val[k][1], e2)
             /\ walking_lane_list'
                  = Aliased(walking_lane_list, qcall.res.val[k][1], e2)
    /\ muts' = muts + 1
    /\ UNCHANGED <<tree_rev, qcall>>
    /\ UNCHANGED <<heap, aois, pois, lanes, roads, juncs, shape, held, lcall>>
    /\ UNCHANGED <<rvars, fvars, ovars, kvars>>

\* The caller overwrites the entries of the header it got from get_header
\* and adds one.  get_header returns self.header, not a copy.
MutateHeader ==
    /\ fcall.op = "get_header"
    /\ fcall.res.exc = "none"
    /\ muts < MaxMut
    /\ heap' = [heap EXCEPT ![fcall.res.val] =
                  [k \in (DOMAIN @) \cup {"injected"} |->
                     IF k \in DOMAIN @ /\ @[k].ref THEN @[k] ELSE Dirty]]
    /\ muts' = muts + 1
    /\ UNCHANGED <<aois, pois, lanes, roads, juncs, shape, held, lcall>>
    /\ UNCHANGED <<qvars, rvars, fvars, ovars, kvars>>

HNext ==
    \/ FQueryPois \/ FQueryAois \/ FQueryLane
    \/ GetHeader
    \/ MutateEntity \/ MutateHeader
    \/ FReturn

SpecHandedOut == FInit /\ [][HNext]_vars

(***************************************************************************)
(* Loading maps                                                            *)
(***************************************************************************)
Optional(S) == {None} \cup {Some(v) : v \in S}

\* The data-source arguments of Map(...): none, a whole source, or a source
\* with the database or the collection left out.
MongoArgs ==
    {<<None, None, None>>}
    \cup {<<Some(src[1]), Some(src[2]), Some(src[3])>> : src \in Sources}
    \cup {<<Some("mongodb://a"), None, Some(c)>> : c \in CollNames}
    \cup {<<Some("mongodb://a"), Some(d), None>> : d \in DbNames}

OInit ==
    /\ \E c \in Collections :
          mongo = [src \in Sources |->
                      IF src[1] = "mongodb://a" THEN Some(c)
                      ELSE Some(RoadMap(TRUE, <<5>>))]
    /\ files = <<>>
    /\ dirs = {}
    /\ ocall = Idle
    /\ loading = [p \in Loaders |-> Idle]
    /\ KLoaded
    /\ QLoadedOne
    /\ LLoaded("full")
    /\ RLoaded(<<LanePosition(2, 1)>>, <<LanePosition(1, 2)>>)
    /\ FLoaded

\* Map(...) runs to its end: the instance, or the exception.
Load ==
    /\ ocall.op = "idle"
    /\ \E args \in MongoArgs, cache_dir \in Optional({"cache"}),
          pb_path \in Optional({"map.pb", "bare.pb", "none.pb"}) :
          \E out \in {Map_init(files, dirs, mongo, PbFiles, args[1], args[2],
                               args[3], cache_dir, pb_path)} :
              /\ files' = out.files
              /\ dirs' = out.dirs
              /\ ocall' = [op |-> "Map", mongo_uri |-> args[1],
                           mongo_db |-> args[2], mongo_coll |-> args[3],
                           cache_dir |-> cache_dir, pb_path |-> pb_path,
                           \* the warning about not using the cache
                           warned |-> cache_dir = None,
                           fetched |-> out.fetched, res |-> out.res]
    /\ UNCHANGED <<mongo, loading>>
    /\ UNCHANGED <<qvars, lvars, rvars, fvars, kvars>>

\* The data source changes between two loads.
MongoWrite ==
    /\ ocall.op = "idle"
    /\ \E src \in Sources, v \in Rewrites :
          /\ mongo[src] # v
          /\ mongo' = [mongo EXCEPT ![src] = v]
    /\ UNCHANGED <<files, dirs, ocall, loading>>
    /\ UNCHANGED <<qvars, lvars, rvars, fvars, kvars>>

\* The caller has the instance or has seen the exception.
OReturn ==
    /\ ocall.op # "idle"
    /\ ocall' = Idle
    /\ UNCHANGED <<mongo, files, dirs, loading>>
    /\ UNCHANGED <<qvars, lvars, rvars, fvars, kvars>>

ONext == Load \/ MongoWrite \/ OReturn

SpecLoad == OInit /\ [][ONext]_vars

(***************************************************************************)
(* Loads that run at the same time: _download_map_with_cache step by step  *)
(***************************************************************************)
\* The records server a holds in these runs: a map that builds, one that
\* does not, or the server cannot be reached.
SharedCollections == {Some(RoadMap(TRUE, <<1>>)), Some(RoadMap(FALSE, <<1>>)),
                      None}

CInit ==
    /\ \E c \in SharedCollections :
          mongo = [src \in Sources |->
                      IF src[1] = "mongodb://a" THEN c
                      ELSE Some(RoadMap(TRUE, <<5>>))]
    /\ files = <<>>
    /\ dirs = {}
    /\ ocall = Idle
    /\ loading = [p \in Loaders |-> Idle]
    /\ KLoaded
    /\ QLoadedOne
    /\ LLoaded("full")
    /\ RLoaded(<<LanePosition(2, 1)>>, <<LanePosition(1, 2)>>)
    /\ FLoaded

CUnchanged ==
    /\ UNCHANGED <<mongo, ocall>>
    /\ UNCHANGED <<qvars, lvars, rvars, fvars, kvars>>

\* A load starts with a cache directory: os.makedirs, the path, and the
\* look for the file (map.py:285-287).
CStart(p) ==
    /\ loading[p].op = "idle"
    /\ \E src \in Sources :
          LET path == cache_path("cache", src[2], src[3])
          IN  loading' = [loading EXCEPT ![p] =
                            [op |-> IF exists(files, path) THEN "read"
                                    ELSE "download",
                             uri |-> src[1], db |-> src[2], coll |-> src[3],
                             cache_path |-> path]]
    /\ dirs' = dirs \cup {"cache"}
    /\ UNCHANGED files
    /\ CUnchanged

\* with open(cache_path, "rb") as f: m = pickle.load(f) (map.py:288-292):
\* the exception leaves the call.
CRead(p) ==
    /\ loading[p].op = "read"
    /\ \E out \in pickle_load_outcomes(files[loading[p].cache_path]) :
          loading' = [loading EXCEPT ![p] =
                         [op |-> "done", cache_path |-> @.cache_path,
                          fetched |-> FALSE, res |-> out]]
    /\ UNCHANGED <<files, dirs>>
    /\ CUnchanged

\* m = _download_map(uri, db, coll) (map.py:294)
CDownload(p) ==
    /\ loading[p].op = "download"
    /\ \E m \in {download_map(mongo, loading[p].uri, loading[p].db,
                              loading[p].coll)} :
          loading' = [loading EXCEPT ![p] =
                         IF m.exc # "none"
                         THEN [op |-> "done", cache_path |-> @.cache_path,
                               fetched |-> TRUE, res |-> m]
                         ELSE [op |-> "open", cache_path |-> @.cache_path,
                               m |-> m.val]]
    /\ UNCHANGED <<files, dirs>>
    /\ CUnchanged

\* open(cache_path, "wb") (map.py:295)
COpen(p) ==
    /\ loading[p].op = "open"
    /\ files' = open_wb(files, loading[p].cache_path)
    /\ loading' = [loading EXCEPT ![p] =
                      [op |-> "dump", cache_path |-> @.cache_path,
                       m |-> @.m, flushed |-> FALSE]]
    /\ UNCHANGED dirs
    /\ CUnchanged

\* pickle.dump(m, f) (map.py:296), the buffer is flushed a first time.
CFlush(p) ==
    /\ loading[p].op = "dump"
    /\ ~loading[p].flushed
    /\ files' = write_head(files, loading[p].cache_path, loading[p].m)
    /\ loading' = [loading EXCEPT ![p].flushed = TRUE]
    /\ UNCHANGED dirs
    /\ CUnchanged

\* pickle.dump(m, f) has written the rest and the file is closed
\* (map.py:295-297); a small pickle is written in one piece.
CClose(p) ==
    /\ loading[p].op = "dump"
    /\ files' = write_tail(IF loading[p].flushed THEN files
                           ELSE write_head(files, loading[p].cache_path,
                                           loading[p].m),
                           loading[p].cache_path, loading[p].m)
    /\ loading' = [loading EXCEPT ![p] =
                      [op |-> "done", cache_path |-> @.cache_path,
                       fetched |-> TRUE, res |-> Returns(@.m)]]
    /\ UNCHANGED dirs
    /\ CUnchanged

\* The caller has the map or has seen the exception.
CReturn(p) ==
    /\ loading[p].op = "done"
    /\ loading' = [loading EXCEPT ![p] = Idle]
    /\ UNCHANGED <<files, dirs>>
    /\ CUnchanged

CNext ==
    \E p \in Loaders :
        \/ CStart(p)
        \/ CRead(p)
        \/ CDownload(p)
        \/ COpen(p)
        \/ CFlush(p)
        \/ CClose(p)
        \/ CReturn(p)

SpecConcurrent == CInit /\ [][CNext]_vars

(***************************************************************************)
(* Properties of the radius queries (checked under SpecQuery)              *)
(***************************************************************************)
Elems(seq) == {seq[i] : i \in DOMAIN seq}
Returned == {qcall.res.val[k][1] : k \in DOMAIN qcall.res.val}
IsRadiusQuery == qcall.op \in {"query_pois", "query_aois", "query_lane"}

\* The grid points a geometry covers.
PointsOf(g) ==
    CASE g.type = "Point" -> {g.coords[1]}
      [] g.type = "Polygon" ->
            LET b == Bounds(g) IN (b[1]..b[3]) \X (b[2]..b[4])
      [] g.type = "LineString" ->
            UNION {LET b == Segment(g, i) IN (b[1]..b[3]) \X (b[2]..b[4]) :
                     i \in 1..(Len(g.coords) - 1)}

\* The pointwise planar distance, squared: the least squared distance from p
\* to a point of the geometry (on this grid the nearest point of a geometry
\* to a grid point is a grid point).
PointwiseDistSq(p, g) ==
    LET ds == {(p[1] - q[1]) * (p[1] - q[1]) + (p[2] - q[2]) * (p[2] - q[2]) :
                 q \in PointsOf(g)}
    IN  CHOOSE d \in ds : \A e \in ds : d <= e

WithinRadius(e) ==
    PointwiseDistSq(qcall.center, e.shapely_xy) <= qcall.radius * qcall.radius

\* p is a prefix of c.
IsPrefix(p, c) == \E n \in 0..Len(c) : p = [i \in 1..n |-> c[i]]

\* The land use an AOI records is one of uses.
IsMember(aoi, uses) ==
    /\ "urban_land_use" \in DOMAIN aoi
    /\ aoi.urban_land_use \in Elems(uses)

\* The entities of the queried index that pass the query's own filter.
Filtered ==
    CASE qcall.op = "query_pois" ->
            {e \in Elems(poi_list) : IsPrefix(qcall.category_prefix, e.category)}
      [] qcall.op = "query_aois" ->
            {e \in Elems(aoi_list) :
                \/ qcall.urban_land_uses = None
                \/ IsMember(e, qcall.urban_land_uses[1])}
      [] qcall.op = "query_lane" ->
            {e \in Elems(lane_values) : e.type = qcall.lane_type}

\* C2: a radius query without a result cap returns an entity that passes the
\* kind-specific filter if and only if the planar distance from the center to
\* its geometry is at most the radius.
C2_RadiusExact ==
    (/\ IsRadiusQuery
     /\ qcall.res.exc = "none"
     /\ qcall.op \in {"query_pois", "query_aois"} => qcall.limit = None)
    => \A e \in Filtered : (e \in Returned) <=> WithinRadius(e)

\* C3: the list a radius query returns is non-decreasing in its distance
\* component, and each distance is the pointwise planar distance from the
\* center to the entity's geometry (0 inside an AOI polygon).
C3_SortedByDistance ==
    (IsRadiusQuery /\ qcall.res.exc = "none")
    => LET r == qcall.res.val
           k == IF qcall.op = "query_lane" THEN 3 ELSE 2
       IN  /\ \A i \in 1..(Len(r) - 1) : r[i][k] <= r[i + 1][k]
           /\ \A i \in DOMAIN r :
                 r[i][k] = PointwiseDistSq(qcall.center, r[i][1].shapely_xy)

\* C3 witness: a query_aois result led by a polygon that contains the center
\* (distance 0), followed by a farther AOI that the index reported first.
C3_Witness ==
    /\ qcall.op = "query_aois"
    /\ qcall.res.exc = "none"
    /\ Len(qcall.res.val) >= 2
    /\ qcall.res.val[1][1].has_area
    /\ qcall.res.val[1][2] = 0
    /\ qcall.res.val[2][2] > 0
    /\ tree_rev

\* The uncapped result of the call recorded in qcall.
Uncapped ==
    IF qcall.op = "query_pois"
    THEN query_pois(qcall.center, qcall.radius, qcall.category_prefix, None)
    ELSE query_aois(qcall.center, qcall.radius, qcall.urban_land_uses, None)

\* C4: query_pois and query_aois with limit n >= 0 return exactly the first
\* min(n, k) elements, in order, of the k-element result without a limit.
C4_LimitIsPrefix ==
    (qcall.op \in {"query_pois", "query_aois"} /\ qcall.limit # None)
    => LET n == qcall.limit[1]
           u == Uncapped
       IN  /\ qcall.res.exc = u.exc
           /\ Len(qcall.res.val) = Min(n, Len(u.val))
           /\ \A i \in DOMAIN qcall.res.val : qcall.res.val[i] = u.val[i]

\* C4 witness: a cap that cuts a result whose nearest match the index reported
\* after a farther one.
C4_Witness ==
    /\ qcall.op = "query_pois"
    /\ qcall.limit = Some(1)
    /\ Len(Uncapped.val) >= 2
    /\ Len(qcall.res.val) = 1
    /\ Uncapped.val[1][2] < Uncapped.val[2][2]
    /\ \E i, j \in DOMAIN poi_list :
          /\ i < j
          /\ tree_rev
          /\ poi_list[i] = Uncapped.val[1][1]
          /\ poi_list[j] = Uncapped.val[2][1]

\* C7: a POI within the radius is returned by query_pois (no limit) if and
\* only if the query string is a prefix of its category code.
C7_PrefixMatch ==
    (qcall.op = "query_pois" /\ qcall.limit = None)
    => \A e \in Elems(poi_list) :
          WithinRadius(e)
          => ((e \in Returned) <=> IsPrefix(qcall.category_prefix, e.category))

\* The same for every radius > 0, where the buffer is not empty: the prefix
\* test itself is the one the claim states.
C7_PrefixMatchPositiveRadius ==
    (qcall.op = "query_pois" /\ qcall.limit = None /\ qcall.radius > 0)
    => \A e \in Elems(poi_list) :
          WithinRadius(e)
          => ((e \in Returned) <=> IsPrefix(qcall.category_prefix, e.category))

\* The AOIs the index reports for the recorded query_aois call.
InRange ==
    Elems([k \in DOMAIN STRtreeQuery(aoi_list, Buffer(qcall.center, qcall.radius))
            |-> aoi_list[STRtreeQuery(aoi_list,
                                      Buffer(qcall.center, qcall.radius))[k]]])

\* C8: query_aois (no limit) completes without error for every stored AOI;
\* with urban_land_uses None it returns every AOI in range, with a list
\* exactly the AOIs in range whose urban_land_use is a member of it (an AOI
\* that records none is a non-member).
C8_LandUseMembership ==
    (qcall.op = "query_aois" /\ qcall.limit = None)
    => /\ qcall.res.exc = "none"
       /\ qcall.urban_land_uses = None => Returned = InRange
       /\ qcall.urban_land_uses # None
            => Returned = {e \in InRange : IsMember(e, qcall.urban_land_uses[1])}

\* C9: the driving index holds exactly the driving lanes and the walking
\* index exactly the walking lanes; query_lane returns only lanes of the kind
\* asked for, and rejects any other lane_type with an error and no result.
C9_LaneTypeSelector ==
    /\ Elems(driving_lane_list) = {l \in Elems(lane_values) : l.type = 1}
    /\ Elems(walking_lane_list) = {l \in Elems(lane_values) : l.type = 2}
    /\ qcall.op = "query_lane"
         => IF qcall.lane_type \in {1, 2}
            THEN /\ qcall.res.exc = "none"
                 /\ \A e \in Returned : e.type = qcall.lane_type
            ELSE /\ qcall.res.exc = "ValueError"
                 /\ qcall.res.val = <<>>

\* C9 witness: a walking-lane query that returns a walking lane although a
\* driving lane lies strictly closer to the point.
C9_Witness ==
    /\ qcall.op = "query_lane"
    /\ qcall.lane_type = 2
    /\ Len(qcall.res.val) >= 1
    /\ \E d \in Elems(driving_lane_list) :
          PointwiseDistSq(qcall.center, d.shapely_xy) < qcall.res.val[1][3]

(***************************************************************************)
(* Properties of the ID lookups (checked under SpecLookup)                 *)
(***************************************************************************)
RECURSIVE DeepValue(_, _)
\* The value of the object at address a as Python's == sees it: its keys,
\* and under each key a number or the value of the nested object.
DeepValue(h, a) ==
    [k \in DOMAIN h[a] |->
        IF h[a][k].ref
        THEN [nested |-> TRUE, atom |-> 0, sub |-> DeepValue(h, h[a][k].v)]
        ELSE [nested |-> FALSE, atom |-> h[a][k].v, sub |-> <<>>]]

\* The mapping a lookup reads.
Mapping(op) ==
    CASE op = "get_aoi" -> aois
      [] op = "get_poi" -> pois
      [] op = "get_lane" -> lanes
      [] op = "get_road" -> roads
      [] op = "get_junction" -> juncs

\* The objects the engine's mappings reach.
StoredReach ==
    UNION {Reach(heap, m[id]) : <<m, id>> \in
             {<<n, i>> \in {aois, pois, lanes, roads, juncs} \X
                           {EntityId[k] : k \in DOMAIN EntityId} :
                 i \in DOMAIN n}}

\* What the call recorded in lcall yields on the freshly loaded engine.
Fresh ==
    LET h == LoadedHeap(shape)
        id == lcall.id
        f == lcall.include_unused
    IN  CASE lcall.op = "get_aoi" -> get_aoi(h, id, f)
          [] lcall.op = "get_poi" -> get_poi(h, id, f)
          [] lcall.op = "get_lane" -> get_lane(h, id, f)
          [] lcall.op = "get_road" -> get_road(h, id, f)
          [] lcall.op = "get_junction" -> get_junction(h, id, f)

\* C1: whatever the caller did to the values returned before, a get_* call
\* returns what the same call returns on the freshly loaded engine, and a
\* returned value shares no object with the stored entities or with another
\* returned value.
C1_DeepCopy ==
    /\ lcall.op # "idle"
         => /\ lcall.res.exc = Fresh.res.exc
            /\ (lcall.res.val = None) <=> (Fresh.res.val = None)
            /\ lcall.res.val # None
                 => DeepValue(heap, lcall.res.val[1])
                      = DeepValue(Fresh.heap, Fresh.res.val[1])
    /\ \A r \in held :
          /\ Reach(heap, r.addr) \cap StoredReach = {}
          /\ \A q \in held \ {r} :
                Reach(heap, r.addr) \cap Reach(heap, q.addr) = {}

\* C1 witness: a lookup that returns after the caller has mutated the value
\* an earlier lookup of the same entity returned, and still holds it.
C1_Witness ==
    /\ lcall.op # "idle"
    /\ lcall.res.val # None
    /\ \E r \in held :
          /\ r.op = lcall.op /\ r.id = lcall.id
          /\ r.addr # lcall.res.val[1]
          /\ "injected" \in DOMAIN heap[r.addr]

\* C5: a get_* call with an ID that is not a key of its mapping returns None
\* without raising, for either value of include_unused, and changes nothing.
C5_AbsentIsNone ==
    [][(/\ lcall.op = "idle"
        /\ lcall'.op # "idle"
        /\ lcall'.id \notin DOMAIN Mapping(lcall'.op))
       => /\ lcall'.res = Returns(None)
          /\ UNCHANGED <<heap, aois, pois, lanes, roads, juncs, held>>]_vars

\* C5 witness: get_junction has returned None for an ID no junction has,
\* called with the default flag while the caller holds earlier results.
C5_Witness ==
    /\ lcall.op = "get_junction"
    /\ lcall.id \notin DOMAIN juncs
    /\ ~lcall.include_unused
    /\ lcall.res = Returns(None)
    /\ held # {}

\* The stored entity of the call recorded in lcall, as loaded.
StoredValue == DeepValue(LoadedHeap(shape), Mapping(lcall.op)[lcall.id])

\* v without the keys ks of the nested dict under key k, if v has one.
WithoutNested(v, k, ks) ==
    IF k \notin DOMAIN v THEN v
    ELSE [v EXCEPT ![k] = [@ EXCEPT !.sub = Without(@, ks)]]

\* The stored entity less its kind's bookkeeping fields.
Stripped ==
    CASE lcall.op = "get_aoi" ->
            WithoutNested(Without(StoredValue, {"type"}),
                          "external", AoiExternalUnused)
      [] lcall.op = "get_lane" -> Without(StoredValue, LaneUnused)
      [] lcall.op = "get_junction" -> Without(StoredValue, JunctionUnused)
      [] lcall.op \in {"get_poi", "get_road"} -> StoredValue

\* C6: for a stored entity, get_*(id, include_unused=True) returns a copy
\* equal to it, and get_*(id) returns, without raising whichever optional
\* fields the record has, a copy that lacks exactly the kind's bookkeeping
\* fields.
C6_IncludeUnused ==
    (lcall.op # "idle" /\ lcall.id \in DOMAIN Mapping(lcall.op))
    => /\ lcall.res.exc = "none"
       /\ lcall.res.val # None
       /\ DeepValue(heap, lcall.res.val[1])
            = IF lcall.include_unused THEN StoredValue ELSE Stripped

\* The same for every record that carries the AOI "type" field.
C6_IncludeUnusedTyped ==
    (/\ lcall.op # "idle"
     /\ lcall.id \in DOMAIN Mapping(lcall.op)
     /\ (lcall.op = "get_aoi" /\ ~lcall.include_unused)
          => "type" \in DOMAIN StoredValue)
    => /\ lcall.res.exc = "none"
       /\ lcall.res.val # None
       /\ DeepValue(heap, lcall.res.val[1])
            = IF lcall.include_unused THEN StoredValue ELSE Stripped

(***************************************************************************)
(* Properties of route positions (checked under SpecRoute)                 *)
(***************************************************************************)
\* The access points AOI a records for lane l, each occurrence counted.
AccessOn(a, l) ==
    {<<"walking", i>> : i \in {j \in DOMAIN route_aois[a].walking_positions :
                                 route_aois[a].walking_positions[j].lane_id = l}}
    \cup
    {<<"driving", i>> : i \in {j \in DOMAIN route_aois[a].driving_positions :
                                 route_aois[a].driving_positions[j].lane_id = l}}

AccessS(a, pt) ==
    IF pt[1] = "walking" THEN route_aois[a].walking_positions[pt[2]].s
    ELSE route_aois[a].driving_positions[pt[2]].s

\* C10: an AOI reference resolves to the s of the AOI's one access point on
\* the lane, and fails with an assertion error when the AOI records none or
\* several for that lane; a lane position resolves to its own s.
C10_LaneS ==
    rcall.op = "_get_lane_s"
    => LET pos == rcall.position
           a == pos.aoi_position[1]
           pts == AccessOn(a, rcall.lane_id)
       IN  /\ (pos.aoi_position # None /\ a \in DOMAIN route_aois)
                => IF Cardinality(pts) = 1
                   THEN \E pt \in pts : rcall.res = Returns(AccessS(a, pt))
                   ELSE rcall.res = Raises("AssertionError")
           /\ (pos.aoi_position # None /\ a \notin DOMAIN route_aois)
                => rcall.res.exc # "none"
           /\ (pos.aoi_position = None /\ pos.lane_position # None)
                => rcall.res = Returns(pos.lane_position[1].s)

\* C10 witness: an AOI reference whose AOI records the lane twice, once as a
\* walking and once as a driving access point, has been refused.
C10_Witness ==
    /\ rcall.op = "_get_lane_s"
    /\ rcall.position.aoi_position = Some(AoiId)
    /\ Cardinality(AccessOn(AoiId, rcall.lane_id)) = 2
    /\ \E pt \in AccessOn(AoiId, rcall.lane_id) : pt[1] = "walking"
    /\ rcall.res = Raises("AssertionError")

(***************************************************************************)
(* Properties of route geometry (checked under SpecRoute)                  *)
(***************************************************************************)
\* The grid points from p up to, not including, q when the step from p to q
\* is axis-aligned; p alone otherwise.
Steps(p, q) ==
    LET dx == q[1] - p[1]
        dy == q[2] - p[2]
        n == (IF dx >= 0 THEN dx ELSE 0 - dx) + (IF dy >= 0 THEN dy ELSE 0 - dy)
    IN  IF p = q THEN <<>>
        ELSE IF dx # 0 /\ dy # 0 THEN <<p>>
        ELSE [k \in 1..n |-> <<p[1] + (k - 1) * Sign(dx),
                               p[2] + (k - 1) * Sign(dy)>>]

RECURSIVE Dense(_)
\* A polyline as the sequence of every grid point it passes, so that two
\* coordinate lists are the same path iff their Dense forms are equal.
Dense(coords) ==
    IF Len(coords) <= 1 THEN coords
    ELSE Steps(coords[1], coords[2]) \o Dense(Tail(coords))

\* The part of line g from arc length a to arc length b, in that direction.
SubPath(g, a, b) ==
    LET d == Dense(g.coords)
        lo == Min(Min(a, b), Len(d) - 1)
        hi == Min(Max(a, b), Len(d) - 1)
        part == SubSeq(d, lo + 1, hi + 1)
    IN  IF a <= b THEN part ELSE Reversed(part)

\* The journey's segments of the kind the request asks for.
IsWalk == rcall.route_req.type = "ROUTE_TYPE_WALKING"
SegmentsOf(journey) ==
    IF IsWalk THEN journey.walking.route ELSE journey.driving.road_ids
KindMatches(journey) ==
    journey.type = (IF IsWalk THEN "JOURNEY_TYPE_WALKING"
                    ELSE "JOURNEY_TYPE_DRIVING")

\* The line travelled over the i-th segment of a journey: a road's derived
\* geometry, or a lane's centerline in the direction walked.
SegLine(journey, i) ==
    IF IsWalk
    THEN LET sg == journey.walking.route[i]
             g == route_lanes[sg.lane_id].shapely_xy
         IN  IF sg.moving_direction = "MOVING_DIRECTION_BACKWARD"
             THEN LineString(Reversed(g.coords)) ELSE g
    ELSE route_roads[journey.driving.road_ids[i]].shapely_xy

\* The lane on which a position is resolved for the i-th segment.
SegLaneId(journey, i) ==
    IF IsWalk THEN journey.walking.route[i].lane_id
    ELSE LET ids == route_roads[journey.driving.road_ids[i]].driving_lane_ids
         IN  ids[Len(ids)]

\* A position resolves on lane l: it is a lane position, or it names a stored
\* AOI with exactly one access point on l.
Resolves(pos, l) ==
    IF pos.aoi_position # None
    THEN /\ pos.aoi_position[1] \in DOMAIN route_aois
         /\ Cardinality(AccessOn(pos.aoi_position[1], l)) = 1
    ELSE pos.lane_position # None

ResolvedS(pos, l) ==
    IF pos.aoi_position # None
    THEN LET a == pos.aoi_position[1]
         IN  AccessS(a, CHOOSE pt \in AccessOn(a, l) : TRUE)
    ELSE pos.lane_position[1].s

\* A route export of a supported kind whose result holds one journey, of the
\* kind of the request, whose first and last segments resolve the request's
\* start and end.
OneJourneyExport ==
    /\ rcall.op = "export_route_as_geojson"
    /\ rcall.route_req.type \in {"ROUTE_TYPE_DRIVING", "ROUTE_TYPE_WALKING"}
    /\ Len(rcall.route_res) = 1
    /\ KindMatches(rcall.route_res[1])
    /\ Len(SegmentsOf(rcall.route_res[1])) >= 1
    /\ Resolves(rcall.route_req.start, SegLaneId(rcall.route_res[1], 1))
    /\ Resolves(rcall.route_req.end,
                SegLaneId(rcall.route_res[1],
                          Len(SegmentsOf(rcall.route_res[1]))))

\* The path from the resolved start to the resolved end of a journey of one
\* segment.
OneSegmentPath ==
    LET j == rcall.route_res[1]
        l == SegLaneId(j, 1)
    IN  SubPath(SegLine(j, 1), ResolvedS(rcall.route_req.start, l),
                ResolvedS(rcall.route_req.end, l))

\* C11: a journey of exactly one segment, one road or one walking lane, is
\* emitted as the sub-path of that segment from the resolved start s to the
\* resolved end s.
C11_SingleSegment ==
    (OneJourneyExport /\ Len(SegmentsOf(rcall.route_res[1])) = 1)
    => /\ rcall.journeys[1].exc = "none"
       /\ Dense(rcall.journeys[1].val) = OneSegmentPath

\* C11 for walking routes only: one walking segment is trimmed at both ends.
C11_SingleSegmentWalking ==
    (OneJourneyExport /\ IsWalk /\ Len(SegmentsOf(rcall.route_res[1])) = 1)
    => /\ rcall.journeys[1].exc = "none"
       /\ Dense(rcall.journeys[1].val) = OneSegmentPath

RECURSIVE WholeSegments(_, _, _)
\* The coordinates of segments i..last of a journey, each complete.
WholeSegments(journey, i, last) ==
    IF i > last THEN <<>>
    ELSE SegLine(journey, i).coords \o WholeSegments(journey, i + 1, last)

\* The path of a journey of two or more segments: the first from the
\* resolved start to its end, the inner ones whole, the last from its
\* beginning to the resolved end.
ManySegmentPath ==
    LET j == rcall.route_res[1]
        n == Len(SegmentsOf(j))
        first == SegLine(j, 1)
        last == SegLine(j, n)
    IN  Dense(SubPath(first, ResolvedS(rcall.route_req.start, SegLaneId(j, 1)),
                      Len(Dense(first.coords)) - 1)
              \o WholeSegments(j, 2, n - 1)
              \o SubPath(last, 0,
                         ResolvedS(rcall.route_req.end, SegLaneId(j, n))))

\* C12: a journey of two or more segments, roads or walking lanes, is emitted
\* as its first segment from the resolved start s on, its inner segments
\* whole and in order, and its last segment up to the resolved end s.
C12_ManySegments ==
    (OneJourneyExport /\ Len(SegmentsOf(rcall.route_res[1])) >= 2)
    => /\ rcall.journeys[1].exc = "none"
       /\ Dense(rcall.journeys[1].val) = ManySegmentPath

\* C12 for walking routes only.
C12_ManySegmentsWalking ==
    (OneJourneyExport /\ IsWalk /\ Len(SegmentsOf(rcall.route_res[1])) >= 2)
    => /\ rcall.journeys[1].exc = "none"
       /\ Dense(rcall.journeys[1].val) = ManySegmentPath

RECURSIVE Emitted(_, _)
\* The coordinates the journeys k.. of the exported route added, in order.
Emitted(journeys, k) ==
    IF k > Len(journeys) THEN <<>>
    ELSE journeys[k].val \o Emitted(journeys, k + 1)

\* c is the planar centroid of g: the point itself, or the mean of the four
\* corners of the rectangle.
IsCentre(c, g) ==
    IF g.type = "Point" THEN c = g.coords[1]
    ELSE /\ 4 * c[1] = g.coords[1][1] + g.coords[2][1]
                       + g.coords[3][1] + g.coords[4][1]
         /\ 4 * c[2] = g.coords[1][2] + g.coords[2][2]
                       + g.coords[3][2] + g.coords[4][2]

\* C13: the exported route is the road-network coordinates of its journeys in
\* order, preceded by the start AOI's centroid iff the start is an AOI
\* reference and followed by the end AOI's centroid iff the end is one, each
\* centroid once for the whole route.
C13_Centroids ==
    (rcall.op = "export_route_as_geojson" /\ rcall.xys.exc = "none")
    => LET start == rcall.route_req.start.aoi_position
           end == rcall.route_req.end.aoi_position
           net == Emitted(rcall.journeys, 1)
           pre == IF start # None THEN 1 ELSE 0
           post == IF end # None THEN 1 ELSE 0
           xys == rcall.xys.val
       IN  /\ Len(xys) = pre + Len(net) + post
           /\ SubSeq(xys, pre + 1, pre + Len(net)) = net
           /\ start # None
                => IsCentre(xys[1], route_aois[start[1]].shapely_xy)
           /\ end # None
                => IsCentre(xys[Len(xys)], route_aois[end[1]].shapely_xy)

\* C13 witness: a route of two journeys from one AOI to another has been
\* exported.
C13_Witness ==
    /\ rcall.op = "export_route_as_geojson"
    /\ rcall.xys.exc = "none"
    /\ Len(rcall.route_res) = 2
    /\ rcall.route_req.start.aoi_position = Some(AoiId)
    /\ rcall.route_req.end.aoi_position = Some(AoiId + 1)
    /\ Len(rcall.xys.val) = Len(Emitted(rcall.journeys, 1)) + 2

\* C14: a route request whose type is neither driving nor walking is
\* rejected with an error by export_route_as_geojson and by
\* estimate_route_time alike; no polyline and no time comes back.
C14_UnsupportedType ==
    (/\ rcall.op \in {"export_route_as_geojson", "estimate_route_time"}
     /\ rcall.route_req.type \notin {"ROUTE_TYPE_DRIVING", "ROUTE_TYPE_WALKING"})
    => /\ rcall.res.exc # "none"
       /\ rcall.res.val = <<>>

\* C14 for export_route_as_geojson only.
C14_ExportRejects ==
    (/\ rcall.op = "export_route_as_geojson"
     /\ rcall.route_req.type \notin {"ROUTE_TYPE_DRIVING", "ROUTE_TYPE_WALKING"})
    => /\ rcall.res = Raises("AssertionError")
       /\ rcall.xys = Raises("AssertionError")

\* The ETAs of the journeys' bodies of one kind, as a set of <<k, eta>>.
Etas(call) ==
    {<<k, IF call.route_req.type = "ROUTE_TYPE_WALKING"
          THEN call.route_res[k].walking.eta
          ELSE call.route_res[k].driving.eta>> : k \in DOMAIN call.route_res}

RECURSIVE Total(_)
Total(S) ==
    IF S = {} THEN 0
    ELSE LET e == CHOOSE x \in S : TRUE IN e[2] + Total(S \ {e})

\* What the route calls must leave as it is: the stored entities, the
\* indexes and their lists.
Stored ==
    <<route_aois, route_lanes, route_roads,
      aoi_list, poi_list, lane_values, driving_lane_list, walking_lane_list,
      heap, aois, pois, lanes, roads, juncs>>

\* C15: estimate_route_time returns the sum of the journeys' walking ETAs for
\* a walking request and of their driving ETAs for a driving request, 0 when
\* there is no journey; the value depends on the request and the result
\* alone, and the call changes no state.
C15_EtaSum ==
    [][(/\ rcall'.op = "estimate_route_time"
        /\ rcall'.route_req.type \in {"ROUTE_TYPE_DRIVING", "ROUTE_TYPE_WALKING"})
       => /\ rcall'.res = Returns(Total(Etas(rcall')))
          /\ Stored' = Stored]_vars

\* C15 witness: the time of a walking route of two journeys has been
\* estimated as the sum of both walking ETAs.
C15_Witness ==
    /\ rcall.op = "estimate_route_time"
    /\ rcall.route_req.type = "ROUTE_TYPE_WALKING"
    /\ Len(rcall.route_res) = 2
    /\ rcall.res.exc = "none"
    /\ rcall.res.val = rcall.route_res[1].walking.eta
                       + rcall.route_res[2].walking.eta
    /\ rcall.route_res[1].walking.eta > 0
    /\ rcall.route_res[2].walking.eta > 0

(***************************************************************************)
(* Properties of the query layer as a whole (checked under SpecFrame)      *)
(***************************************************************************)
\* What the engine holds: the five mappings and every object they reach,
\* the header, the projector, the lists behind the spatial indexes and the
\* entities the route calls read.
EngineState ==
    <<aois, pois, lanes, roads, juncs, header, projector,
      [a \in Kept |-> heap[a]],
      aoi_list, poi_list, lane_values, driving_lane_list, walking_lane_list,
      tree_rev, route_aois, route_lanes, route_roads>>

\* C16: no call of the query layer -- an ID lookup, a radius query, a
\* coordinate conversion, a GeoJSON export, a route export, a travel-time
\* estimate, get_header -- changes what the engine holds, whether the call
\* returns or raises.
C16_Frame == [][EngineState' = EngineState]_vars

\* An AOI export has returned a feature, a copy of the AOI is on the heap
\* beside the stored one; and an export has raised.
C16_Witness ==
    /\ fcall.op = "export_aoi_center_as_geojson"
    /\ fcall.res.exc = "none"
    /\ fcall.properties = "auto"
    /\ DOMAIN heap # Kept

C16_WitnessRaised ==
    /\ fcall.op = "export_lane_as_geojson"
    /\ fcall.res.exc = "AssertionError"

(***************************************************************************)
(* Properties of loading (checked under SpecLoad)                          *)
(***************************************************************************)
\* The data source a Map(...) call names, if it names one.
UsesMongo(call) ==
    call.mongo_uri # None /\ call.mongo_db # None /\ call.mongo_coll # None
SourceOf(call) == <<call.mongo_uri[1], call.mongo_db[1], call.mongo_coll[1]>>

\* The snapshot file of a call that names a data source and a cache
\* directory.
SnapshotOf(call) ==
    [dir |-> call.cache_dir[1],
     name |-> call.mongo_db[1] \o call.mongo_coll[1] \o <<"pkl">>]

\* A step in which Map(...) runs.
Loads == ocall.op = "idle" /\ ocall'.op = "Map"

\* The step reads the records of the data source and parses them.
Builds ==
    /\ Loads
    /\ UsesMongo(ocall')
    /\ ocall'.cache_dir # None => SnapshotOf(ocall') \notin DOMAIN files
    /\ mongo[SourceOf(ocall')] # None

NoHeader(m) == \A k \in DOMAIN m : m[k].class # "header"

\* C17: a load whose records hold no header record ends in the
\* missing-header failure (the failed assert), whatever else the records
\* hold -- a road that cannot be built included --, the caller gets no
\* instance, and no snapshot is written.
C17_MissingHeader ==
    [][Builds /\ NoHeader(mongo[SourceOf(ocall')][1])
       => /\ ocall'.res = Raises("AssertionError")
          /\ files' = files]_vars

\* The load of headerless records whose road has no lane at all has failed
\* on the header, with a cache directory given.
C17_Witness ==
    /\ ocall.op = "Map"
    /\ UsesMongo(ocall)
    /\ ocall.cache_dir # None
    /\ ocall.fetched
    /\ mongo[SourceOf(ocall)] = Some(RoadMap(FALSE, <<>>))
    /\ ocall.res = Raises("AssertionError")
    /\ files = <<>>

\* The roads of the instance a load has returned, with its lanes by id.
BuiltRoads ==
    IF ocall.op = "Map" /\ ocall.res.exc = "none"
    THEN {<<ocall.res.val.roads[i], ById(ocall.res.val.lanes)>> :
            i \in DOMAIN ocall.res.val.roads}
    ELSE {}

\* The driving lanes of a road, in the order of its lane list.
DrivingOf(road, lanes_by_id) ==
    SelectSeq(road.lane_ids, LAMBDA lid : lanes_by_id[lid].type = 1)

\* The road carries the length, speed and geometries of the lane.
DerivedFrom(road, lane) ==
    /\ road.length = lane.length
    /\ road.max_speed = lane.max_speed
    /\ road.shapely_xy = lane.shapely_xy
    /\ road.shapely_lnglat = lane.shapely_lnglat

\* C18: every road of a loaded map that has a driving lane lists its
\* driving lanes in original order in driving_lane_ids and carries the
\* length, speed and geometries of the lane
\* driving_lane_ids[floor(len(driving_lane_ids) / 2)], wherever the walking
\* lanes sit in its lane list.
C18_CenterLane ==
    \A b \in BuiltRoads :
        DrivingOf(b[1], b[2]) # <<>>
        => /\ b[1].driving_lane_ids = DrivingOf(b[1], b[2])
           /\ DerivedFrom(b[1],
                          b[2][DrivingOf(b[1], b[2])
                                 [Len(DrivingOf(b[1], b[2])) \div 2 + 1]])

\* C18, the part that holds: driving_lane_ids is the list of the driving
\* lanes, and the centre lane is the one named when no walking lane comes
\* before the centre position of the lane list.
C18_DrivingLanesFirst ==
    \A b \in BuiltRoads :
        DrivingOf(b[1], b[2]) # <<>>
        => /\ b[1].driving_lane_ids = DrivingOf(b[1], b[2])
           /\ (\A i \in 1..(Len(DrivingOf(b[1], b[2])) \div 2 + 1) :
                  b[2][b[1].lane_ids[i]].type = 1)
              => DerivedFrom(b[1],
                             b[2][DrivingOf(b[1], b[2])
                                    [Len(DrivingOf(b[1], b[2])) \div 2 + 1]])

\* C19: no loaded map holds a road without a driving lane: the load of
\* such a road fails, the road is not given the attributes of a lane.
C19_NoDrivingLanes ==
    \A b \in BuiltRoads : DrivingOf(b[1], b[2]) # <<>>

\* C19, the part that holds: a road whose lane list is empty fails the
\* load (IndexError).
C19_EmptyRoad ==
    \A b \in BuiltRoads : b[1].lane_ids # <<>>

\* The outputs of the builds that succeed, over every record collection a
\* data source of the model can hold.
GoodBuilds ==
    {parse_map(c).val :
       c \in {d \in Collections
                    \cup {RoadMap(TRUE, <<5>>)}
                    \cup {r[1] : r \in Rewrites \ {None}} :
                parse_map(d).exc = "none"}}

\* Every snapshot file holds the output of a build that succeeded.
SnapshotsBuilt == \A p \in DOMAIN files : pickle_load(files[p]) \in GoodBuilds

\* What a load through the cache does: with the snapshot present it reads
\* no data source, leaves the files alone and returns the snapshot's
\* content; with the snapshot absent it reads the data source, and writes
\* the snapshot exactly when the build has succeeded.
CachedLoad ==
    Loads /\ UsesMongo(ocall') /\ ocall'.cache_dir # None
    => IF SnapshotOf(ocall') \in DOMAIN files
       THEN /\ ~ocall'.fetched
            /\ files' = files
            /\ ocall'.pb_path = None
               => ocall'.res
                  = Returns(Engine(pickle_load(files[SnapshotOf(ocall')])))
       ELSE /\ ocall'.fetched
            /\ IF mongo[SourceOf(ocall')] = None
                  \/ parse_map(mongo[SourceOf(ocall')][1]).exc # "none"
               THEN /\ files' = files
                    /\ ocall'.res.exc # "none"
               ELSE /\ DOMAIN files' = (DOMAIN files) \cup {SnapshotOf(ocall')}
                    /\ \A p \in DOMAIN files : files'[p] = files[p]
                    /\ pickle_load(files'[SnapshotOf(ocall')])
                       = parse_map(mongo[SourceOf(ocall')][1]).val
                    /\ ocall'.pb_path = None
                       => ocall'.res
                          = Returns(Engine(
                               parse_map(mongo[SourceOf(ocall')][1]).val))

\* C20: over any sequence of loads and changes of the data sources, a load
\* that finds the snapshot returns its content without reading the data
\* source and without building; a load that does not find it reads and
\* builds, and writes the snapshot only when the build has succeeded; so
\* a failed load leaves no snapshot and every snapshot is the output of a
\* build that succeeded.
C20_Cache == [][CachedLoad]_vars /\ []SnapshotsBuilt

\* A load has returned the snapshot's map while the server of its data
\* source cannot be reached.
C20_Witness ==
    /\ ocall.op = "Map"
    /\ UsesMongo(ocall)
    /\ ocall.cache_dir # None
    /\ ocall.pb_path = None
    /\ mongo[SourceOf(ocall)] = None
    /\ ~ocall.fetched
    /\ ocall.res.exc = "none"

\* A load has failed with a cache directory given, and the directory holds
\* no file.
C20_WitnessFailed ==
    /\ ocall.op = "Map"
    /\ UsesMongo(ocall)
    /\ ocall.cache_dir # None
    /\ ocall.fetched
    /\ ocall.res.exc = "IndexError"
    /\ "cache" \in dirs
    /\ files = <<>>

\* The record collections a data source holds at one time or another.
HeldBy(src) ==
    (IF src[1] = "mongodb://a" THEN Collections
     ELSE {RoadMap(TRUE, <<5>>)})
    \cup {r[1] : r \in Rewrites \ {None}}

\* A load has been answered from the snapshot file.
CacheHit ==
    /\ ocall.op = "Map"
    /\ UsesMongo(ocall)
    /\ ocall.cache_dir # None
    /\ ocall.pb_path = None
    /\ ~ocall.fetched
    /\ ocall.res.exc = "none"

\* C21: the snapshot a load is answered from was written by a load for the
\* same data source (uri, database, collection): what a cache hit returns
\* is the build of records its own data source has held.
C21_KeyedBySource ==
    CacheHit
    => \E c \in HeldBy(SourceOf(ocall)) :
          /\ parse_map(c).exc = "none"
          /\ ocall.res.val = Engine(parse_map(c).val)

\* C21, the part that holds: the snapshot a load is answered from was
\* written under the same database and collection names.
C21_KeyedByNames ==
    CacheHit
    => \E src \in Sources :
          /\ src[2] = ocall.mongo_db[1] /\ src[3] = ocall.mongo_coll[1]
          /\ \E c \in HeldBy(src) :
                /\ parse_map(c).exc = "none"
                /\ ocall.res.val = Engine(parse_map(c).val)

(***************************************************************************)
(* Properties of loads that run at the same time (SpecConcurrent)          *)
(***************************************************************************)
\* Load p is between open(cache_path, "wb") and the end of pickle.dump.
Writing(p) == loading[p].op = "dump"

\* Load q looks for its file in this step.
Starts(q) == loading[q].op = "idle" /\ loading'[q].op # "idle"

\* Load q reads its file in this step.
Reads(q) == loading[q].op = "read" /\ loading'[q].op = "done"

\* The file holds no complete pickle.
Incomplete(b) == "pickle" \notin DOMAIN b

\* C22: nothing coordinates the loads on one cache path.  A load that
\* looks for the file while another load is writing it finds it and goes
\* on to read it; and a load that reads the file while it holds no
\* complete pickle gets the failure of pickle.load, not a map.
C22_Uncoordinated ==
    [][\A q \in Loaders :
          /\ Starts(q)
             /\ (\E p \in Loaders \ {q} :
                    /\ Writing(p)
                    /\ loading[p].cache_path = loading'[q].cache_path)
             => loading'[q].op = "read"
          /\ Reads(q) /\ Incomplete(files[loading[q].cache_path])
             => /\ loading'[q].res.exc \in {"EOFError", "UnpicklingError"}
                /\ files' = files]_vars

\* One load is part-way through writing the snapshot it found absent, and
\* a second load has found the file and has read an incomplete snapshot.
C22_Witness ==
    \E p, q \in Loaders :
        /\ p # q
        /\ Writing(p)
        /\ Incomplete(files[loading[p].cache_path])
        /\ loading[q].op = "done"
        /\ loading[q].cache_path = loading[p].cache_path
        /\ ~loading[q].fetched
        /\ loading[q].res.exc \in {"EOFError", "UnpicklingError"}

\* Two writers of one path have left a file that is no pickle.
C22_WitnessMixed ==
    /\ \A p \in Loaders : loading[p].op \in {"idle", "done"}
    /\ \E path \in DOMAIN files :
          /\ Incomplete(files[path])
          /\ files[path].head # None /\ files[path].tail # None

LoadedFromRecords ==
    /\ ocall.op = "Map"
    /\ UsesMongo(ocall)
    /\ ocall.pb_path = None
    /\ ocall.fetched
    /\ ocall.res.exc = "none"

\* The records the load has read.
RecordsRead == mongo[SourceOf(ocall)][1]

\* The payload of the last record of a class with an id.
LastOf(m, class, id) ==
    m[CHOOSE k \in DOMAIN m :
         /\ m[k].class = class /\ m[k].data.id = id
         /\ \A j \in DOMAIN m :
               m[j].class = class /\ m[j].data.id = id => j <= k].data

\* The five mappings of the instance, by the class of their records.
MappingOf(engine) ==
    [lane |-> engine.lanes, road |-> engine.roads, junction |-> engine.juncs,
     aoi |-> engine.aois, poi |-> engine.pois]

\* C24: the mappings of a loaded map are a function of the record
\* sequence: each holds exactly the ids of the records of its class, each
\* id with the payload of the last record of the class with that id (the
\* attributes the build derives come on top), so no record is in the
\* mapping of another class and a record of an unknown class is in none;
\* and the header is the payload of the last header record.
C24_Partition ==
    LoadedFromRecords
    => /\ \A class \in DOMAIN MappingOf(ocall.res.val) :
             /\ DictIds(MappingOf(ocall.res.val)[class])
                = {RecordsRead[k].data.id :
                     k \in {j \in DOMAIN RecordsRead :
                              RecordsRead[j].class = class}}
             /\ \A i \in DOMAIN MappingOf(ocall.res.val)[class] :
                   \A key \in DOMAIN LastOf(RecordsRead, class,
                                   MappingOf(ocall.res.val)[class][i].id) :
                       MappingOf(ocall.res.val)[class][i][key]
                       = LastOf(RecordsRead, class,
                                MappingOf(ocall.res.val)[class][i].id)[key]
             /\ \A i, j \in DOMAIN MappingOf(ocall.res.val)[class] :
                   MappingOf(ocall.res.val)[class][i].id
                   = MappingOf(ocall.res.val)[class][j].id => i = j
       /\ Some(ocall.res.val.header) = HeaderOf(RecordsRead)

\* A map has been loaded from records that hold a record of an unknown
\* class, two records for lane 3 with different payloads, and records of
\* all five classes with the header last.
C24_Witness ==
    /\ LoadedFromRecords
    /\ \E k \in DOMAIN RecordsRead : RecordsRead[k].class = "unknown"
    /\ \E j, k \in DOMAIN RecordsRead :
          /\ j < k
          /\ RecordsRead[j].class = "lane" /\ RecordsRead[k].class = "lane"
          /\ RecordsRead[j].data.id = 3 /\ RecordsRead[k].data.id = 3
          /\ RecordsRead[j].data # RecordsRead[k].data
    /\ \A class \in DOMAIN MappingOf(ocall.res.val) :
          MappingOf(ocall.res.val)[class] # <<>>
    /\ RecordsRead[Len(RecordsRead)].class = "header"

(***************************************************************************)
(* Properties of the geometry of route segments (checked under SpecRoute)  *)
(***************************************************************************)
\* C25: the geometry of a walking segment is the centerline of its lane
\* with the order of its points reversed when the segment is walked
\* backward, and the centerline as stored for any other direction; the
\* stored lanes are left as they are; and a walking journey is trimmed and
\* emitted over exactly that geometry.
C25_WalkingDirection ==
    /\ [][(/\ rcall'.op = "_get_walking_geo"
           /\ rcall'.segment.lane_id \in DOMAIN route_lanes)
          => /\ rcall'.res.exc = "none"
             /\ rcall'.res.val.lane_id = rcall'.segment.lane_id
             /\ rcall'.res.val.geo.type = "LineString"
             /\ rcall'.res.val.geo.coords
                = (IF rcall'.segment.moving_direction
                        = "MOVING_DIRECTION_BACKWARD"
                   THEN Reversed(route_lanes[rcall'.segment.lane_id]
                                    .shapely_xy.coords)
                   ELSE route_lanes[rcall'.segment.lane_id].shapely_xy.coords)
             /\ route_lanes' = route_lanes]_vars
    /\ [](/\ (OneJourneyExport /\ IsWalk
              /\ Len(SegmentsOf(rcall.route_res[1])) = 1)
             => /\ rcall.journeys[1].exc = "none"
                /\ Dense(rcall.journeys[1].val) = OneSegmentPath
          /\ (OneJourneyExport /\ IsWalk
              /\ Len(SegmentsOf(rcall.route_res[1])) >= 2)
             => /\ rcall.journeys[1].exc = "none"
                /\ Dense(rcall.journeys[1].val) = ManySegmentPath)

\* The geometry of a segment walked backward over a lane of three points
\* has been taken, and it runs from the lane's last point to its first.
C25_Witness ==
    /\ rcall.op = "_get_walking_geo"
    /\ rcall.segment = WalkingRouteSegment(2, "MOVING_DIRECTION_BACKWARD")
    /\ rcall.res.exc = "none"
    /\ rcall.res.val.geo.coords = <<<<1, 3>>, <<0, 3>>, <<0, 1>>>>
    /\ route_lanes[2].shapely_xy.coords = <<<<0, 1>>, <<0, 3>>, <<1, 3>>>>

\* A walking journey whose last segment is walked backward has been
\* exported.
C25_WitnessExport ==
    /\ OneJourneyExport /\ IsWalk
    /\ rcall.route_res[1].walking.route = <<Forward(2), Backward(4)>>
    /\ rcall.journeys[1].exc = "none"

(***************************************************************************)
(* Properties of the values handed out (checked under SpecHandedOut)       *)
(***************************************************************************)
\* What the radius queries answer for the widest search around each point,
\* and the content of the header.
Answers ==
    <<[c \in Grid |-> query_pois(c, MaxRadius, <<>>, None)],
      [c \in Grid |-> query_aois(c, MaxRadius, None, None)],
      [c \in Grid |-> query_lane(c, MaxRadius, 1)],
      [c \in Grid |-> query_lane(c, MaxRadius, 2)],
      heap[header]>>

\* C26: when the caller changes an entity of the result tuples of
\* query_pois, query_aois or query_lane, or the header it got from
\* get_header, the engine holds what it held before and a later radius
\* query or get_header answers as before.
C26_HandedOutIsolated ==
    [][muts' # muts => /\ EngineState' = EngineState
                       /\ Answers' = Answers]_vars

(***************************************************************************)
(* Properties of routes of several journeys (checked under SpecRoute)      *)
(***************************************************************************)
\* A route export of a supported kind whose result holds two or more
\* journeys, each of the kind of the request and of one segment or more,
\* where the request's start resolves on the first segment of the first
\* journey and its end on the last segment of the last journey.
ManyJourneyExport ==
    /\ rcall.op = "export_route_as_geojson"
    /\ rcall.route_req.type \in {"ROUTE_TYPE_DRIVING", "ROUTE_TYPE_WALKING"}
    /\ Len(rcall.route_res) >= 2
    /\ \A k \in DOMAIN rcall.route_res :
          /\ KindMatches(rcall.route_res[k])
          /\ Len(SegmentsOf(rcall.route_res[k])) >= 1
    /\ Resolves(rcall.route_req.start, SegLaneId(rcall.route_res[1], 1))
    /\ Resolves(rcall.route_req.end,
                SegLaneId(rcall.route_res[Len(rcall.route_res)],
                          Len(SegmentsOf(rcall.route_res[Len(rcall.route_res)]))))

\* The i-th segment of the k-th journey of a route: from the resolved start
\* when it is the first segment of the first journey, up to the resolved
\* end when it is the last segment of the last journey, complete otherwise.
RouteSegmentPath(k, i) ==
    LET j == rcall.route_res[k]
        g == SegLine(j, i)
        a == IF k = 1 /\ i = 1
             THEN ResolvedS(rcall.route_req.start, SegLaneId(j, i)) ELSE 0
        b == IF k = Len(rcall.route_res) /\ i = Len(SegmentsOf(j))
             THEN ResolvedS(rcall.route_req.end, SegLaneId(j, i))
             ELSE Len(Dense(g.coords)) - 1
    IN  SubPath(g, a, b)

RECURSIVE RouteJourneyPath(_, _)
\* Segments i.. of the k-th journey, in order.
RouteJourneyPath(k, i) ==
    IF i > Len(SegmentsOf(rcall.route_res[k])) THEN <<>>
    ELSE RouteSegmentPath(k, i) \o RouteJourneyPath(k, i + 1)

\* C27: in a route of two or more journeys the start is resolved and
\* trimmed only on the first segment of the first journey and the end only
\* on the last segment of the last journey; every other segment is emitted
\* complete, the journeys in result order, and the export succeeds although
\* the start or end AOI has no access point on another journey's lanes.
C27_MultiJourney ==
    ManyJourneyExport
    => /\ rcall.xys.exc = "none"
       /\ \A k \in DOMAIN rcall.route_res :
             /\ rcall.journeys[k].exc = "none"
             /\ Dense(rcall.journeys[k].val) = Dense(RouteJourneyPath(k, 1))

\* C27 for walking routes only.
C27_MultiJourneyWalking ==
    (ManyJourneyExport /\ IsWalk)
    => /\ rcall.xys.exc = "none"
       /\ \A k \in DOMAIN rcall.route_res :
             /\ rcall.journeys[k].exc = "none"
             /\ Dense(rcall.journeys[k].val) = Dense(RouteJourneyPath(k, 1))

(***************************************************************************)
(* Properties of driving segments (checked under SpecRoute)                *)
(***************************************************************************)
\* The last driving lane of a road, and the lane in the middle of its
\* driving lanes.
LastDrivingLane(road) == road.driving_lane_ids[Len(road.driving_lane_ids)]
MiddleDrivingLane(road) ==
    road.driving_lane_ids[(Len(road.driving_lane_ids) \div 2) + 1]

\* The road lists its driving lanes before any other lane.
DrivingLanesFirst(road) ==
    SubSeq(road.lane_ids, 1, Len(road.driving_lane_ids)) = road.driving_lane_ids

\* A driving route of one journey has been exported whose start resolves on
\* the last driving lane of the journey's first road.
DrivingStartExport ==
    /\ rcall.op = "export_route_as_geojson"
    /\ rcall.route_req.type = "ROUTE_TYPE_DRIVING"
    /\ Len(rcall.route_res) = 1
    /\ KindMatches(rcall.route_res[1])
    /\ Len(SegmentsOf(rcall.route_res[1])) >= 1
    /\ Resolves(rcall.route_req.start, SegLaneId(rcall.route_res[1], 1))

C28_WitnessGeo ==
    /\ rcall.op = "_get_driving_geo"
    /\ rcall.road_id = RoadId + 3
    /\ rcall.res.exc = "none"
    /\ rcall.res.val.lane_id = 5
    /\ rcall.res.val.geo = route_lanes[3].shapely_xy

(***************************************************************************)
(* Properties of segments walked backward (checked under SpecRoute)        *)
(***************************************************************************)
\* The point of lane l at arc length s from the lane's own start, no
\* farther than its end.
LanePoint(l, s) ==
    LET line == Dense(route_lanes[l].shapely_xy.coords)
    IN  line[Min(s, Len(line) - 1) + 1]

IsBackward(segment) == segment.moving_direction = "MOVING_DIRECTION_BACKWARD"

\* C29: when the first segment of a walking journey is walked backward, the
\* emitted path begins at the point of that lane whose arc length from the
\* lane's own start is the resolved start s; when the last segment is
\* walked backward, the path ends at the point of that lane whose arc
\* length from the lane's own start is the resolved end s.
C29_BackwardS ==
    (OneJourneyExport /\ IsWalk)
    => LET route == rcall.route_res[1].walking.route
           n == Len(route)
           xys == rcall.journeys[1].val
       IN  /\ rcall.journeys[1].exc = "none"
           /\ IsBackward(route[1])
                => xys[1] = LanePoint(route[1].lane_id,
                                      ResolvedS(rcall.route_req.start,
                                                route[1].lane_id))
           /\ IsBackward(route[n])
                => xys[Len(xys)] = LanePoint(route[n].lane_id,
                                             ResolvedS(rcall.route_req.end,
                                                       route[n].lane_id))

(***************************************************************************)
(* Properties of the relation cache (checked under SpecKG)                 *)
(***************************************************************************)
\* What the call that has just returned computes from the collection.
Computed ==
    CASE kcall.op = "query_object"
           -> aggregate_object(relation_coll, kcall.id, kcall.relations[1])
      [] kcall.op = "query_subject"
           -> aggregate_subject(relation_coll, kcall.id, kcall.relations[1])
      [] kcall.op = "explore"
           -> aggregate_explore(relation_coll, kcall.id, kcall.relations)

\* C30: a result that query_object, query_subject or explore serves from
\* the relation cache is the result of that operation for those arguments,
\* also when the subject or object id is the empty string.
C30_CacheKeys ==
    (kcall.op # "idle" /\ kcall.hit) => kcall.res = Returns(Computed)

\* C30 for ids that are not empty.
C30_CacheKeysNonEmpty ==
    (kcall.op # "idle" /\ kcall.hit /\ kcall.id # "")
    => kcall.res = Returns(Computed)

====
